---- MODULE Spec2Model ----
(***************************************************************************)
(* Iterable MCP server for Cloudflare Workers.                             *)
(*                                                                         *)
(* The module models the permission evaluator (tools/filter.ts), the       *)
(* worker entry point with its credential resolution, and the MCP agent    *)
(* that registers tool handlers and calls the Iterable API through         *)
(* IterableClient.                                                         *)
(*                                                                         *)
(* JavaScript null and undefined are modelled by the two sentinel values   *)
(* Null and Undefined; they are not strings of the program.                *)
(***************************************************************************)
EXTENDS Integers, Sequences, FiniteSets, Bags

VARIABLES
  toolName,        \* filter: the tool name under evaluation
  config,          \* filter: the McpServerConfig under evaluation
  called,          \* filter: which functions have been applied to the inputs
  allowed,         \* filter: result of isToolAllowed(toolName, config)
  reason,          \* filter: result of getBlockedReason(toolName, config)
  omitted,         \* filter: capability set evaluated without toolName
  allowedOmitted,  \* filter: isToolAllowed against the table lacking toolName
  env,             \* worker: the process-level Env bindings
  last,            \* worker: the request handled last and its response
  agents,          \* worker: the agent sessions
  method,          \* client: the IterableClient method called
  arg,             \* client: its string argument (userId), else empty
  pc,              \* client: position of the call
  fetches,         \* client: the outbound fetches issued by the call
  response,        \* client: status line of the upstream response
  text,            \* client: outcome of reading the response body
  returned,        \* client: what request() returned (variant and value)
  requestError,    \* client: what request() rejected with
  result,          \* client: what the method resolved with
  error,           \* client: what the method rejected with
  params,          \* query: the parameters given to getSentMessages
  path,            \* query: the path getSentMessages hands to request()
  options,         \* query: a call of request(): base URL, path and options
  url              \* query: the URL request() hands to fetch

filterVars == <<toolName, config, called, allowed, reason, omitted, allowedOmitted>>
workerVars == <<env, last, agents>>
clientVars == <<method, arg, pc, fetches, response, text, returned,
               requestError, result, error>>
queryVars == <<params, path, options, url>>
vars == <<toolName, config, called, allowed, reason, omitted, allowedOmitted,
          env, last, agents,
          method, arg, pc, fetches, response, text, returned, requestError,
          result, error,
          params, path, options, url>>

Null == "<null>"
Undefined == "<undefined>"

\* JavaScript truthiness of a value of type string | null | undefined.
Truthy(v) == v # Null /\ v # Undefined /\ v # ""

\* JavaScript a || b on such values.
Or(a, b) == IF Truthy(a) THEN a ELSE b

(***************************************************************************)
(* Capability sets (tools/filter.ts).                                      *)
(***************************************************************************)
NON_PII_TOOLS ==
  {
    "abort_campaign", "activate_triggered_campaign", "archive_campaigns",
    "bulk_delete_catalog_items", "cancel_campaign", "create_campaign",
    "create_catalog", "create_list", "create_snippet",
    "deactivate_triggered_campaign", "delete_catalog", "delete_catalog_item",
    "delete_list", "delete_snippet", "delete_templates", "get_campaign",
    "get_campaign_metrics", "get_campaigns", "get_catalog_field_mappings",
    "get_catalog_item", "get_catalog_items", "get_catalogs", "get_channels",
    "get_child_campaigns", "get_email_template", "get_experiment_metrics",
    "get_inapp_template", "get_journeys", "get_list_size", "get_lists",
    "get_message_types", "get_push_template", "get_sms_template",
    "get_snippet", "get_snippets", "get_template_by_client_id",
    "get_templates", "get_user_fields", "get_webhooks",
    "partial_update_catalog_item", "preview_email_template",
    "preview_inapp_template", "replace_catalog_item", "schedule_campaign",
    "send_campaign", "trigger_campaign", "update_catalog_field_mappings",
    "update_catalog_items", "update_email_template", "update_inapp_template",
    "update_push_template", "update_sms_template", "update_snippet",
    "update_webhook", "upsert_email_template", "upsert_inapp_template",
    "upsert_push_template", "upsert_sms_template"
  }

READ_ONLY_TOOLS ==
  {
    "get_campaign", "get_campaign_metrics", "get_campaigns",
    "get_catalog_field_mappings", "get_catalog_item", "get_catalog_items",
    "get_catalogs", "get_channels", "get_child_campaigns",
    "get_email_template", "get_embedded_messages", "get_experiment_metrics",
    "get_export_files", "get_export_jobs", "get_in_app_messages",
    "get_inapp_template", "get_journeys", "get_list_preview_users",
    "get_list_size", "get_list_users", "get_lists", "get_message_types",
    "get_push_template", "get_sent_messages", "get_sms_template",
    "get_snippet", "get_snippets", "get_template_by_client_id",
    "get_templates", "get_user_by_email", "get_user_by_user_id",
    "get_user_events_by_email", "get_user_events_by_user_id",
    "get_user_fields", "get_webhooks", "preview_email_template",
    "preview_inapp_template"
  }

\* Variant: a read tool is listed among the send tools.
SEND_TOOLS_WithReadTool ==
  {"get_campaigns",
    "send_campaign", "trigger_campaign", "schedule_campaign",
    "create_campaign", "activate_triggered_campaign", "trigger_journey",
    "track_event", "track_bulk_events", "send_email", "send_sms",
    "send_whatsapp", "send_web_push", "send_push", "send_in_app",
    "send_email_template_proof", "send_sms_template_proof",
    "send_push_template_proof", "send_inapp_template_proof"
  }

SEND_TOOLS ==
  {
    "send_campaign", "trigger_campaign", "schedule_campaign",
    "create_campaign", "activate_triggered_campaign", "trigger_journey",
    "track_event", "track_bulk_events", "send_email", "send_sms",
    "send_whatsapp", "send_web_push", "send_push", "send_in_app",
    "send_email_template_proof", "send_sms_template_proof",
    "send_push_template_proof", "send_inapp_template_proof"
  }

\* Names that are in none of the three capability sets.
UnknownNames ==
  {"", "unknown_tool", "totally_unknown_tool", "nonexistent_tool", "update_user"}

ToolNames == NON_PII_TOOLS \cup READ_ONLY_TOOLS \cup SEND_TOOLS \cup UnknownNames

\* McpServerConfig: the 8 permission configurations.
Configs ==
  [allowUserPii : BOOLEAN, allowWrites : BOOLEAN, allowSends : BOOLEAN]

PII_REASON == "This tool exposes user PII. Enable with ITERABLE_USER_PII=true"
WRITE_REASON == "This tool modifies data. Enable with ITERABLE_ENABLE_WRITES=true"
SEND_REASON == "This tool can send messages. Enable with ITERABLE_ENABLE_SENDS=true"

(***************************************************************************)
(* Permission evaluator (tools/filter.ts).  isToolAllowedWith is the body  *)
(* of isToolAllowed with the three capability tables made explicit.        *)
(***************************************************************************)

\* Variant: the PII check is missing.
isToolAllowedWith_NoPiiCheck(name, c, nonPii, readOnly, send) ==
  IF ~c.allowWrites /\ name \notin readOnly THEN FALSE
  ELSE IF ~c.allowSends /\ name \in send THEN FALSE
  ELSE TRUE

\* Variant: the write check is missing.
isToolAllowedWith_NoWriteCheck(name, c, nonPii, readOnly, send) ==
  IF ~c.allowUserPii /\ name \notin nonPii THEN FALSE
  ELSE IF ~c.allowSends /\ name \in send THEN FALSE
  ELSE TRUE

\* Variant: the write check lost the negation of the membership test.
isToolAllowedWith_WriteDenyList(name, c, nonPii, readOnly, send) ==
  IF ~c.allowUserPii /\ name \notin nonPii THEN FALSE
  ELSE IF ~c.allowWrites /\ name \in readOnly THEN FALSE
  ELSE IF ~c.allowSends /\ name \in send THEN FALSE
  ELSE TRUE

\* Variant: the send check lost the negation of the flag.
isToolAllowedWith_SendFlipped(name, c, nonPii, readOnly, send) ==
  IF ~c.allowUserPii /\ name \notin nonPii THEN FALSE
  ELSE IF ~c.allowWrites /\ name \notin readOnly THEN FALSE
  ELSE IF c.allowSends /\ name \in send THEN FALSE
  ELSE TRUE

\* Variant: a name found in none of the three sets is denied first.
isToolAllowedWith_UnknownDenied(name, c, nonPii, readOnly, send) ==
  IF name \notin (nonPii \cup readOnly \cup send) THEN FALSE
  ELSE IF ~c.allowUserPii /\ name \notin nonPii THEN FALSE
  ELSE IF ~c.allowWrites /\ name \notin readOnly THEN FALSE
  ELSE IF ~c.allowSends /\ name \in send THEN FALSE
  ELSE TRUE

isToolAllowedWith(name, c, nonPii, readOnly, send) ==
  IF ~c.allowUserPii /\ name \notin nonPii THEN FALSE
  ELSE IF ~c.allowWrites /\ name \notin readOnly THEN FALSE
  ELSE IF ~c.allowSends /\ name \in send THEN FALSE
  ELSE TRUE

isToolAllowed(name, c) ==
  isToolAllowedWith(name, c, NON_PII_TOOLS, READ_ONLY_TOOLS, SEND_TOOLS)

\* Variant: the send check is missing.
getBlockedReason_NoSendCheck(name, c) ==
  IF ~c.allowUserPii /\ name \notin NON_PII_TOOLS THEN PII_REASON
  ELSE IF ~c.allowWrites /\ name \notin READ_ONLY_TOOLS THEN WRITE_REASON
  ELSE Null

\* Variant: the checks run in the order send, write, PII.
getBlockedReason_SendFirst(name, c) ==
  IF ~c.allowSends /\ name \in SEND_TOOLS THEN SEND_REASON
  ELSE IF ~c.allowWrites /\ name \notin READ_ONLY_TOOLS THEN WRITE_REASON
  ELSE IF ~c.allowUserPii /\ name \notin NON_PII_TOOLS THEN PII_REASON
  ELSE Null

getBlockedReason(name, c) ==
  IF ~c.allowUserPii /\ name \notin NON_PII_TOOLS THEN PII_REASON
  ELSE IF ~c.allowWrites /\ name \notin READ_ONLY_TOOLS THEN WRITE_REASON
  ELSE IF ~c.allowSends /\ name \in SEND_TOOLS THEN SEND_REASON
  ELSE Null

\* The capability tables as they would be with name left out of one of them.
TableWithout(table, name) ==
  [NON_PII_TOOLS |->
     IF table = "NON_PII_TOOLS" THEN NON_PII_TOOLS \ {name} ELSE NON_PII_TOOLS,
   READ_ONLY_TOOLS |->
     IF table = "READ_ONLY_TOOLS" THEN READ_ONLY_TOOLS \ {name} ELSE READ_ONLY_TOOLS,
   SEND_TOOLS |->
     IF table = "SEND_TOOLS" THEN SEND_TOOLS \ {name} ELSE SEND_TOOLS]

TableNames == {"NON_PII_TOOLS", "READ_ONLY_TOOLS", "SEND_TOOLS"}

(***************************************************************************)
(* Environment bindings and configuration (types/env.ts).                  *)
(***************************************************************************)

\* Bounds of the worker model.
MaxAgents == 2

Paths == {"/mcp", "/sse", "/sse/message", "/"}
QueryValues == {Null, "", "key-q"}       \* url.searchParams.get("api_key")
HeaderValues == {Null, "", "key-h"}      \* request.headers.get("X-Iterable-Api-Key")
EnvKeyValues == {Undefined, "", "key-e"} \* env.ITERABLE_API_KEY
FlagValues == {"true", "false"}          \* the three permission variables

\* toLowerCase() of a flag value.
ToLowerCase(v) == IF v \in {"TRUE", "True"} THEN "true" ELSE v

\* Variant: the comparison ignores case.
parseConfig_IgnoreCase(e) ==
  [allowUserPii |-> ToLowerCase(e.ITERABLE_USER_PII) = "true",
   allowWrites |-> ToLowerCase(e.ITERABLE_ENABLE_WRITES) = "true",
   allowSends |-> ToLowerCase(e.ITERABLE_ENABLE_SENDS) = "true"]

parseConfig(e) ==
  [allowUserPii |-> e.ITERABLE_USER_PII = "true",
   allowWrites |-> e.ITERABLE_ENABLE_WRITES = "true",
   allowSends |-> e.ITERABLE_ENABLE_SENDS = "true"]

(***************************************************************************)
(* Worker entry point: default.fetch (index.ts).                           *)
(***************************************************************************)

\* Variant: the header is consulted before the query parameter.
ExtractApiKey_HeaderFirst(query, header, e) ==
  Or(Or(header, query), e.ITERABLE_API_KEY)

\* Variant: ?? in place of ||, so that only null and undefined fall through.
ExtractApiKey_Nullish(query, header, e) ==
  IF query \notin {Null, Undefined} THEN query
  ELSE IF header \notin {Null, Undefined} THEN header
  ELSE e.ITERABLE_API_KEY

\* const apiKey = searchParams.get("api_key") || headers.get(...) || env.ITERABLE_API_KEY
ExtractApiKey(query, header, e) ==
  Or(Or(query, header), e.ITERABLE_API_KEY)

\* Variant: the guard forgets the /sse/message route.
ApiKeyRequired_NoMessageRoute(apiKey, pathname) ==
  ~Truthy(apiKey) /\ (pathname = "/mcp" \/ pathname = "/sse")

\* The condition of the 401 response.
ApiKeyRequired(apiKey, pathname) ==
  ~Truthy(apiKey)
    /\ (pathname = "/mcp" \/ pathname = "/sse" \/ pathname = "/sse/message")

\* const envWithKey = { ...env, ITERABLE_API_KEY: apiKey }
EnvWithKey(e, apiKey) == [e EXCEPT !.ITERABLE_API_KEY = apiKey]

\* Variant: a path is served by the transport whose mount point it starts
\* with.
Transport_PrefixMatch(pathname) ==
  IF pathname \in {"/sse", "/sse/message", "/sse/messages"} THEN "sse"
  ELSE IF pathname \in {"/mcp", "/mcp/"} THEN "mcp"
  ELSE "none"

\* Which transport serves the path: serveSSE("/sse"), serve("/mcp") or none.
Transport(pathname) ==
  IF pathname = "/sse" \/ pathname = "/sse/message" THEN "sse"
  ELSE IF pathname = "/mcp" THEN "mcp"
  ELSE "none"

\* The bodies of the two responses the worker builds itself.
API_KEY_REQUIRED == "API key required"
SERVER_INFO == "Iterable MCP Server"

(***************************************************************************)
(* IterableMcpAgent (index.ts).                                            *)
(***************************************************************************)

\* The tool names init() tests with isToolAllowed, in source order.
InitTools ==
  {
    "get_campaigns", "get_campaign", "get_campaign_metrics",
    "get_child_campaigns", "get_templates", "get_email_template",
    "get_sms_template", "get_push_template", "get_inapp_template",
    "get_template_by_client_id", "get_user_by_email", "get_user_by_user_id",
    "get_user_fields", "get_sent_messages", "get_user_events_by_email",
    "get_user_events_by_user_id", "get_lists", "get_list_size",
    "get_list_users", "get_channels", "get_message_types", "get_journeys",
    "get_experiment_metrics", "get_webhooks", "get_snippets", "get_snippet",
    "get_catalogs", "get_catalog_items", "get_catalog_item"
  }

\* Tool names a client invokes in the model: one registered under every
\* configuration, one registered only with PII, one that has no handler.
InvokeNames == {"get_campaign", "get_user_by_user_id", "nonexistent_tool"}

\* Variant: every handler is registered without asking isToolAllowed.
RegisteredTools_Unfiltered(e) == InitTools

\* Variant: the PII gate of init reads the writes flag.
RegisteredTools_PiiFromWrites(e) ==
  {n \in InitTools :
     isToolAllowed(n, [parseConfig(e) EXCEPT !.allowUserPii = parseConfig(e).allowWrites])}

\* init(): a handler is registered for each name that passes isToolAllowed.
RegisteredTools(e) ==
  {n \in InitTools : isToolAllowed(n, parseConfig(e))}

\* getClient(): const apiKey = this.env.ITERABLE_API_KEY || ""
getClient(e) == [apiKey |-> Or(e.ITERABLE_API_KEY, "")]

\* IterableClient.request: the headers of the outbound fetch.
RequestHeaders(client) == [ApiKey |-> client.apiKey]

(***************************************************************************)
(* State of the worker model.                                              *)
(***************************************************************************)

\* No request handled yet.
NoRequest ==
  [pathname |-> Null, query |-> Null, header |-> Null, apiKey |-> Null,
   handledBy |-> "none", status |-> 0, body |-> Null, passedKey |-> Null,
   inTransport |-> FALSE]

\* The env a session's agent reads as this.env.  default.fetch hands
\* envWithKey to serve(...).fetch(); the session object is made by agents/mcp
\* and the Durable Object runtime, which this repository does not contain:
\* its env is the one that was handed on or the bindings of the deployment.
\* Both hold the same permission variables.
SessionEnvs(e, envWithKey) == {e, envWithKey}

\* An agent session: its env, the handlers init() registered, the tool
\* invoked last, the outbound fetches of that invocation and its outcome:
\* "error" when no handler ran, "threw" when the handler rejected before
\* any fetch, "pending" while it awaits the client, then "returned" or
\* "rejected".
NewAgent(e) ==
  [pc |-> "created", env |-> e, registered |-> {}, tool |-> Null,
   result |-> Null, fetches |-> <<>>]

AgentSet == BagToSet(agents)

ReplaceAgent(a, b) == (agents (-) SetToBag({a})) (+) SetToBag({b})

(***************************************************************************)
(* JavaScript strings and values used by IterableClient (client/iterable.ts) *)
(* A string is a sequence of one-character strings.                        *)
(***************************************************************************)

\* Bounds of the client model.
MaxBodyLen == 4

\* Characters of the response bodies of the model.
BodyChars == {"0", "1", "a", "\n", " ", "{", "}", "\""}

RECURSIVE StringsUpTo(_, _)
StringsUpTo(chars, n) ==
  IF n = 0 THEN {<<>>}
  ELSE LET shorter == StringsUpTo(chars, n - 1) IN
         shorter \cup {Append(s, c) : s \in shorter, c \in chars}

WhiteSpace == {" ", "\n", "\t", "\r"}
Digits == {"0", "1", "2", "3", "4", "5", "6", "7", "8", "9"}

DigitValue(c) ==
  CASE c = "0" -> 0 [] c = "1" -> 1 [] c = "2" -> 2 [] c = "3" -> 3
    [] c = "4" -> 4 [] c = "5" -> 5 [] c = "6" -> 6 [] c = "7" -> 7
    [] c = "8" -> 8 [] c = "9" -> 9

DigitChar(d) ==
  CASE d = 0 -> "0" [] d = 1 -> "1" [] d = 2 -> "2" [] d = 3 -> "3"
    [] d = 4 -> "4" [] d = 5 -> "5" [] d = 6 -> "6" [] d = 7 -> "7"
    [] d = 8 -> "8" [] d = 9 -> "9"

RECURSIVE TrimStart(_)
TrimStart(s) ==
  IF s # <<>> /\ Head(s) \in WhiteSpace THEN TrimStart(Tail(s)) ELSE s

RECURSIVE TrimEnd(_)
TrimEnd(s) ==
  IF s # <<>> /\ s[Len(s)] \in WhiteSpace
  THEN TrimEnd(SubSeq(s, 1, Len(s) - 1))
  ELSE s

\* String.prototype.trim
Trim(s) == TrimEnd(TrimStart(s))

\* String.prototype.split(sep) for a one-character separator.
RECURSIVE Split(_, _)
Split(s, sep) ==
  IF \E i \in 1..Len(s) : s[i] = sep
  THEN LET i == CHOOSE j \in 1..Len(s) :
                  s[j] = sep /\ \A k \in 1..(j - 1) : s[k] # sep
       IN  <<SubSeq(s, 1, i - 1)>> \o Split(SubSeq(s, i + 1, Len(s)), sep)
  ELSE <<s>>

\* The longest prefix of decimal digits.
RECURSIVE DigitPrefix(_)
DigitPrefix(s) ==
  IF s # <<>> /\ Head(s) \in Digits
  THEN <<Head(s)>> \o DigitPrefix(Tail(s))
  ELSE <<>>

(***************************************************************************)
(* JavaScript numbers.  The numbers of the model are the doubles whose     *)
(* value is a natural number; a natural number of any size is the sequence *)
(* of its decimal digits (0..9), most significant first, without leading   *)
(* zero.                                                                   *)
(***************************************************************************)

Zeros(n) == [i \in 1..n |-> 0]

RECURSIVE StripZeros(_)
StripZeros(d) ==
  IF Len(d) > 1 /\ Head(d) = 0 THEN StripZeros(Tail(d)) ELSE d

\* The natural number of a small integer.
RECURSIVE NatOf(_)
NatOf(n) ==
  IF n < 10 THEN <<n>> ELSE Append(NatOf(n \div 10), n % 10)

\* The natural number a non-empty string of decimal digits denotes.
DigitsToNumber(s) == StripZeros([i \in 1..Len(s) |-> DigitValue(s[i])])

\* The decimal digits of a natural number, as a string.
NatToString(d) == [i \in 1..Len(d) |-> DigitChar(d[i])]

\* a < b: the shorter number, or of two of one length the one with the
\* smaller digit where they first differ.
NatLess(a, b) ==
  \/ Len(a) < Len(b)
  \/ /\ Len(a) = Len(b)
     /\ \E i \in 1..Len(a) :
          a[i] < b[i] /\ \A j \in 1..(i - 1) : a[j] = b[j]

\* d div 2
NatHalf(d) ==
  LET RECURSIVE HalfFrom(_, _)
      HalfFrom(e, carry) ==
        IF e = <<>> THEN <<>>
        ELSE LET cur == 10 * carry + Head(e)
             IN  <<cur \div 2>> \o HalfFrom(Tail(e), cur % 2)
  IN  StripZeros(HalfFrom(d, 0))

\* 2 * d
NatDouble(d) ==
  LET RECURSIVE DoubleFrom(_, _)
      DoubleFrom(e, carry) ==
        IF e = <<>> THEN (IF carry = 0 THEN <<>> ELSE <<carry>>)
        ELSE LET cur == 2 * e[Len(e)] + carry
             IN  Append(DoubleFrom(SubSeq(e, 1, Len(e) - 1), cur \div 10), cur % 10)
  IN  DoubleFrom(d, 0)

\* d + 1
RECURSIVE NatInc(_)
NatInc(d) ==
  IF d = <<>> THEN <<1>>
  ELSE IF d[Len(d)] < 9 THEN [d EXCEPT ![Len(d)] = @ + 1]
  ELSE Append(NatInc(SubSeq(d, 1, Len(d) - 1)), 0)

\* 2^53: a double has a significand of 53 bits.
TwoTo53 == <<9, 0, 0, 7, 1, 9, 9, 2, 5, 4, 7, 4, 0, 9, 9, 2>>

\* The significand of n: n is halved until it is below 2^53; guard is the
\* bit shifted out last, sticky tells whether a bit shifted out before it
\* was set.
RECURSIVE Significand(_, _, _, _)
Significand(m, shift, guard, sticky) ==
  IF NatLess(m, TwoTo53)
  THEN [m |-> m, shift |-> shift, guard |-> guard, sticky |-> sticky]
  ELSE Significand(NatHalf(m), shift + 1, m[Len(m)] % 2 = 1, sticky \/ guard)

\* The double nearest to the natural number n, ties to the even
\* significand: what reading a decimal integer as a Number gives.
ToDouble(n) ==
  LET RECURSIVE ShiftLeft(_, _)
      ShiftLeft(m, shift) ==
        IF shift = 0 THEN m ELSE ShiftLeft(NatDouble(m), shift - 1)
      Round(r) ==
        ShiftLeft(IF r.guard /\ (r.sticky \/ r.m[Len(r.m)] % 2 = 1)
                  THEN NatInc(r.m) ELSE r.m,
                  r.shift)
  IN  Round(Significand(n, 0, FALSE, FALSE))

\* The digits String(d) shows for the double d: of the decimal numbers with
\* the fewest significant digits that read back as d, the one nearest to d.
\* RoundedDown(k) is the k leading digits of d followed by zeros,
\* RoundedUp(k) the next such number.
ShortestDigits(d) ==
  LET RoundedDown(k) == SubSeq(d, 1, k) \o Zeros(Len(d) - k)
      RoundedUp(k) == NatInc(SubSeq(d, 1, k)) \o Zeros(Len(d) - k)
      reads(c) == ToDouble(c) = d
      some(k) == reads(RoundedDown(k)) \/ reads(RoundedUp(k))
      upNearer(tail, digit) ==
        /\ tail # <<>>
        /\ \/ tail[1] > 5
           \/ (tail[1] = 5 /\ \E i \in 2..Len(tail) : tail[i] # 0)
           \/ (tail[1] = 5 /\ (\A i \in 2..Len(tail) : tail[i] = 0) /\ digit % 2 = 1)
      Nearest(down, up, tail, digit) ==
        IF ~reads(up) THEN down
        ELSE IF ~reads(down) THEN up
        ELSE IF upNearer(tail, digit) THEN up ELSE down
      Shortest(k) ==
        Nearest(RoundedDown(k), RoundedUp(k), SubSeq(d, k + 1, Len(d)), d[k])
  IN  Shortest(CHOOSE j \in 1..Len(d) : some(j) /\ \A i \in 1..(j - 1) : ~some(i))

\* String(d) for the double d: the shortest digits, in positional notation
\* below 10^21 and in exponent notation from 10^21 on ("1e+21",
\* "1.2345e+22"), where the digits stop at the last that is not zero.
NumberToString(d) ==
  LET Exponent(s, e) ==
        <<DigitChar(s[1])>>
          \o (IF Len(s) > 1 THEN <<".">> \o NatToString(Tail(s)) ELSE <<>>)
          \o <<"e", "+">> \o NatToString(NatOf(e))
      Format(c) ==
        IF Len(c) <= 21 THEN NatToString(c)
        ELSE Exponent(SubSeq(c, 1, CHOOSE i \in 1..Len(c) :
                                     /\ i = 1 \/ c[i] # 0
                                     /\ \A j \in (i + 1)..Len(c) : c[j] = 0),
                      Len(c) - 1)
  IN  Format(ShortestDigits(d))

(***************************************************************************)
(* JavaScript values: a number, NaN, a string, null, true, false, an       *)
(* array (items), an object (entries; {} has none), and the records        *)
(* {size} and {users} the client builds.                                   *)
(***************************************************************************)

NoValue ==
  [type |-> "none", num |-> <<>>, str |-> <<>>, users |-> <<>>,
   items |-> <<>>, entries |-> <<>>]
ObjectValue(members) == [NoValue EXCEPT !.type = "object", !.entries = members]
EmptyObject == ObjectValue(<<>>)
NumberValue(n) == [NoValue EXCEPT !.type = "number", !.num = n]
NaNValue == [NoValue EXCEPT !.type = "NaN"]
StringValue(s) == [NoValue EXCEPT !.type = "string", !.str = s]
\* null, true and false.
LiteralValue(name) == [NoValue EXCEPT !.type = name]
ArrayValue(elements) == [NoValue EXCEPT !.type = "array", !.items = elements]
SizeRecord(v) ==
  [NoValue EXCEPT !.type = IF v.type = "NaN" THEN "{size: NaN}" ELSE "{size}",
                  !.num = v.num]
UsersRecord(emails) == [NoValue EXCEPT !.type = "{users}", !.users = emails]

\* String(value).  An array is its elements joined with ",", null standing
\* for the empty string; an object is "[object Object]".
RECURSIVE StringOf(_)
RECURSIVE ArrayJoin(_)
ArrayJoin(elements) ==
  IF elements = <<>> THEN <<>>
  ELSE LET first == IF Head(elements).type = "null" THEN <<>>
                    ELSE StringOf(Head(elements))
       IN  IF Len(elements) = 1 THEN first
           ELSE first \o <<",">> \o ArrayJoin(Tail(elements))

StringOf(v) ==
  CASE v.type = "number" -> NumberToString(v.num)
    [] v.type = "string" -> v.str
    [] v.type = "NaN" -> <<"N", "a", "N">>
    [] v.type = "null" -> <<"n", "u", "l", "l">>
    [] v.type = "true" -> <<"t", "r", "u", "e">>
    [] v.type = "false" -> <<"f", "a", "l", "s", "e">>
    [] v.type = "array" -> ArrayJoin(v.items)
    [] OTHER -> <<"[", "o", "b", "j", "e", "c", "t", " ",
                  "O", "b", "j", "e", "c", "t", "]">>

\* parseInt(value, 10) for unsigned input: String(value), leading white
\* space skipped, the digit prefix read as a Number, NaN when there is none.
parseInt(v) ==
  LET digits == DigitPrefix(TrimStart(StringOf(v))) IN
    IF digits = <<>> THEN NaNValue
    ELSE NumberValue(ToDouble(DigitsToNumber(digits)))

(***************************************************************************)
(* JSON.parse for the bodies of the model: white space, the literals, the  *)
(* unsigned integers, strings, arrays and objects.  No body of the model   *)
(* holds a sign, a fraction, an exponent or a backslash.                   *)
(***************************************************************************)

\* A failed parse (SyntaxError).
ParseFailed == [ok |-> FALSE, value |-> NoValue, rest |-> <<>>]
Parsed(v, rest) == [ok |-> TRUE, value |-> v, rest |-> rest]

\* A string literal at the head of s; closes(j) says that the literal ends
\* at j, every character before it being one a JSON string may hold
\* unescaped.
ParseString(s) ==
  LET closes(j) ==
        /\ s[j] = "\""
        /\ \A i \in 2..(j - 1) : s[i] \notin {"\"", "\\", "\n", "\t", "\r"}
  IN  IF s = <<>> \/ Head(s) # "\"" THEN ParseFailed
      ELSE IF \E j \in 2..Len(s) : closes(j)
      THEN LET j == CHOOSE i \in 2..Len(s) : closes(i)
           IN  Parsed(StringValue(SubSeq(s, 2, j - 1)), SubSeq(s, j + 1, Len(s)))
      ELSE ParseFailed

\* An unsigned integer at the head of s: "0", or digits without leading
\* zero.
ParseNumber(s) ==
  LET digits == IF Head(s) = "0" THEN <<"0">> ELSE DigitPrefix(s) IN
    Parsed(NumberValue(ToDouble(DigitsToNumber(digits))),
           SubSeq(s, Len(digits) + 1, Len(s)))

\* The member key |-> v set in an object.  A key that is there keeps its
\* place and takes the new value.  A new key that is an array index (the
\* decimal digits of an integer below 2^32 - 1, without leading zero) goes
\* among the index keys, which come first in ascending numeric order; any
\* other new key goes to the end.
SetMember(members, key, v) ==
  LET IsIndex(k) ==
        /\ k # <<>>
        /\ \A i \in 1..Len(k) : k[i] \in Digits
        /\ Len(k) = 1 \/ k[1] # "0"
        /\ NatLess(DigitsToNumber(k), <<4, 2, 9, 4, 9, 6, 7, 2, 9, 5>>)
      before == {i \in 1..Len(members) :
                   /\ IsIndex(members[i].key)
                   /\ NatLess(DigitsToNumber(members[i].key), DigitsToNumber(key))}
      member == [key |-> key, value |-> v]
  IN  IF \E i \in 1..Len(members) : members[i].key = key
      THEN [i \in 1..Len(members) |->
              IF members[i].key = key THEN member ELSE members[i]]
      ELSE IF IsIndex(key)
      THEN SubSeq(members, 1, Cardinality(before)) \o <<member>>
             \o SubSeq(members, Cardinality(before) + 1, Len(members))
      ELSE Append(members, member)

RECURSIVE ParseValue(_)
RECURSIVE ParseElements(_, _)
RECURSIVE ParseMembers(_, _)

\* The elements of an array after "[" or ",": a value, then "," or "]".
ParseElements(s, elements) ==
  LET v == ParseValue(TrimStart(s))
      after == TrimStart(v.rest)
  IN  IF ~v.ok \/ after = <<>> THEN ParseFailed
      ELSE IF Head(after) = "]"
      THEN Parsed(ArrayValue(Append(elements, v.value)), Tail(after))
      ELSE IF Head(after) = ","
      THEN ParseElements(Tail(after), Append(elements, v.value))
      ELSE ParseFailed

\* The members of an object after "{" or ",": a string, ":", a value, then
\* "," or "}".
ParseMembers(s, members) ==
  LET key == ParseString(TrimStart(s))
      colon == TrimStart(key.rest)
  IN  IF ~key.ok \/ colon = <<>> \/ Head(colon) # ":" THEN ParseFailed
      ELSE LET v == ParseValue(TrimStart(Tail(colon)))
               after == TrimStart(v.rest)
               set == SetMember(members, key.value.str, v.value)
           IN  IF ~v.ok \/ after = <<>> THEN ParseFailed
               ELSE IF Head(after) = "}"
               THEN Parsed(ObjectValue(set), Tail(after))
               ELSE IF Head(after) = ","
               THEN ParseMembers(Tail(after), set)
               ELSE ParseFailed

\* A value at the head of s (s has no leading white space).  Literal reads
\* the word of null, true or false.
ParseValue(s) ==
  LET Literal(word, name) ==
        IF Len(s) >= Len(word) /\ SubSeq(s, 1, Len(word)) = word
        THEN Parsed(LiteralValue(name), SubSeq(s, Len(word) + 1, Len(s)))
        ELSE ParseFailed
  IN
  IF s = <<>> THEN ParseFailed
  ELSE IF Head(s) = "{"
  THEN LET inner == TrimStart(Tail(s)) IN
         IF inner # <<>> /\ Head(inner) = "}" THEN Parsed(EmptyObject, Tail(inner))
         ELSE ParseMembers(inner, <<>>)
  ELSE IF Head(s) = "["
  THEN LET inner == TrimStart(Tail(s)) IN
         IF inner # <<>> /\ Head(inner) = "]" THEN Parsed(ArrayValue(<<>>), Tail(inner))
         ELSE ParseElements(inner, <<>>)
  ELSE IF Head(s) = "\"" THEN ParseString(s)
  ELSE IF Head(s) \in Digits THEN ParseNumber(s)
  ELSE IF Head(s) = "t" THEN Literal(<<"t", "r", "u", "e">>, "true")
  ELSE IF Head(s) = "f" THEN Literal(<<"f", "a", "l", "s", "e">>, "false")
  ELSE IF Head(s) = "n" THEN Literal(<<"n", "u", "l", "l">>, "null")
  ELSE ParseFailed

\* JSON.parse(s): one value with white space around it.
JSONParse(s) ==
  LET r == ParseValue(TrimStart(s)) IN
    IF r.ok /\ TrimStart(r.rest) = <<>>
    THEN [ok |-> TRUE, value |-> r.value]
    ELSE [ok |-> FALSE, value |-> NoValue]

\* Bodies longer than MaxBodyLen: 2^53 + 1, which no double holds; 10^21,
\* from which on String() writes an exponent, without and with a leading
\* zero; the literals, an array, an object, and an object whose index key
\* follows another key in the text.
LongBodies ==
  { <<"9", "0", "0", "7", "1", "9", "9", "2", "5", "4", "7", "4", "0", "9", "9", "3">>,
    <<"1">> \o NatToString(Zeros(21)),
    <<"0", "1">> \o NatToString(Zeros(21)),
    <<"n", "u", "l", "l">>,
    <<"t", "r", "u", "e">>,
    <<"f", "a", "l", "s", "e">>,
    <<"[", "1", ",", "0", "]">>,
    <<"{", "\"", "a", "\"", ":", "1", "}">>,
    <<"{", "\"", "a", "\"", ":", "1", ",", "\"", "0", "\"", ":", "0", "}">> }

\* The response bodies of the model.
Bodies == StringsUpTo(BodyChars, MaxBodyLen) \cup LongBodies

(***************************************************************************)
(* IterableClient (client/iterable.ts).                                    *)
(***************************************************************************)

\* new IterableApiError(status, statusText, body)
IterableApiError(status, statusText, body) ==
  [name |-> "IterableApiError", status |-> status,
   statusText |-> statusText, body |-> body]

\* An error of another class, with its message.
ThrownError(name, message) == [name |-> name, message |-> message]

NoError == [name |-> "none"]

\* UTF-16 code units of U+1F600; each alone is an unpaired surrogate.
HighSurrogate == "U+D83D"
LowSurrogate == "U+DE00"

RECURSIVE IsWellFormed(_)
IsWellFormed(s) ==
  IF s = <<>> THEN TRUE
  ELSE IF Head(s) = HighSurrogate
  THEN Len(s) >= 2 /\ s[2] = LowSurrogate /\ IsWellFormed(Tail(Tail(s)))
  ELSE Head(s) # LowSurrogate /\ IsWellFormed(Tail(s))

\* encodeURIComponent of a well-formed string over "a", "@" and the pair.
RECURSIVE EncodeComponent(_)
EncodeComponent(s) ==
  IF s = <<>> THEN <<>>
  ELSE IF Head(s) = HighSurrogate
  THEN <<"%", "F", "0", "%", "9", "F", "%", "9", "8", "%", "8", "0">>
         \o EncodeComponent(Tail(Tail(s)))
  ELSE IF Head(s) = "@"
  THEN <<"%", "4", "0">> \o EncodeComponent(Tail(s))
  ELSE <<Head(s)>> \o EncodeComponent(Tail(s))

\* encodeURIComponent throws URIError on an unpaired surrogate.
encodeURIComponent(s) ==
  IF IsWellFormed(s)
  THEN [ok |-> TRUE, value |-> EncodeComponent(s),
        thrown |-> NoError]
  ELSE [ok |-> FALSE, value |-> <<>>,
        thrown |-> ThrownError("URIError", <<"U", "R", "I">>)]

\* The methods of the model: a plain pass-through of request(), the two
\* methods that lift a plain-text result, and one that encodes its argument.
ClientMethods ==
  {"getCampaignMetrics", "getListSize", "getListUsers", "getUserByUserId"}

UserIds ==
  {<<"a">>, <<"a", "@">>, <<HighSurrogate, LowSurrogate>>,
   <<HighSurrogate>>, <<"a", LowSurrogate>>}

ArgsOf(m) == IF m = "getUserByUserId" THEN UserIds ELSE {<<>>}

\* The path each method hands to request(); getUserByUserId encodes first.
MethodPath(m, a) ==
  CASE m = "getCampaignMetrics" -> <<"/api/campaigns/metrics">>
    [] m = "getListSize" -> <<"/api/lists/", "1", "/size">>
    [] m = "getListUsers" -> <<"/api/lists/getUsers">>
    [] m = "getUserByUserId" ->
         <<"/api/users/byUserId/">> \o encodeURIComponent(a).value

\* What fetch() can resolve with, and what it or text() can reject with.
ResponseStatuses ==
  {[status |-> 200, statusText |-> "OK"],
   [status |-> 404, statusText |-> "Not Found"],
   [status |-> 500, statusText |-> "Internal Server Error"]}

\* response.ok
IsOk(r) == r.status >= 200 /\ r.status <= 299

FetchErrors == {ThrownError("TypeError", <<"d", "n", "s">>)}
ReadErrors == {ThrownError("TypeError", <<"e", "o", "f">>)}
ErrorBodies == {<<>>, <<"a">>, <<"{", "}">>}

NoResponse == [settled |-> "pending", status |-> 0, statusText |-> "",
               thrown |-> NoError]
Unread == [state |-> "unread", value |-> <<>>, thrown |-> NoError]
NoReturn == [variant |-> "none", value |-> NoValue]

\* Variant: the raw text is trimmed before it is returned.
Normalize_TrimmedText(t) ==
  IF t = <<>> THEN [variant |-> "empty", value |-> EmptyObject]
  ELSE IF JSONParse(t).ok THEN [variant |-> "json", value |-> JSONParse(t).value]
  ELSE [variant |-> "text", value |-> StringValue(Trim(t))]

\* request(): the value returned for an ok response whose body is t.
Normalize(t) ==
  IF t = <<>> THEN [variant |-> "empty", value |-> EmptyObject]
  ELSE IF JSONParse(t).ok THEN [variant |-> "json", value |-> JSONParse(t).value]
  ELSE [variant |-> "text", value |-> StringValue(t)]

\* Variant: every caught error is wrapped, IterableApiError included.
CatchBlock_WrapAll(e) ==
  IterableApiError(0, "Network Error",
                   IF e.name = "IterableApiError" THEN <<>> ELSE e.message)

\* request(): the catch block.
CatchBlock(e) ==
  IF e.name = "IterableApiError" THEN e
  ELSE IterableApiError(0, "Network Error", e.message)

\* getListSize: { size: parseInt(result, 10) }
getListSizeResult(v) == SizeRecord(parseInt(v))

NonBlank(line) == Trim(line) # <<>>

RECURSIVE TrimEach(_)
TrimEach(lines) ==
  IF lines = <<>> THEN <<>>
  ELSE <<Trim(Head(lines))>> \o TrimEach(Tail(lines))

\* Variant: blank lines are kept.
getListUsersResult_KeepBlank(v) ==
  IF v.type = "string"
  THEN UsersRecord(TrimEach(Split(Trim(v.str), "\n")))
  ELSE v

\* Variant: a result that is not a string gives an empty list of users.
getListUsersResult_AlwaysUsers(v) ==
  IF v.type = "string"
  THEN UsersRecord(TrimEach(SelectSeq(Split(Trim(v.str), "\n"), NonBlank)))
  ELSE UsersRecord(<<>>)

\* getListUsers: a string result is trimmed, split on newline, filtered
\* and mapped; any other result is returned as it is.
getListUsersResult(v) ==
  IF v.type = "string"
  THEN UsersRecord(TrimEach(SelectSeq(Split(Trim(v.str), "\n"), NonBlank)))
  ELSE v

\* What the method resolves with when request() returned v.
MethodResult(m, v) ==
  CASE m = "getListSize" -> getListSizeResult(v)
    [] m = "getListUsers" -> getListUsersResult(v)
    [] OTHER -> v

ClientIdle ==
  /\ method = "getCampaignMetrics"
  /\ arg = <<>>
  /\ pc = "idle"
  /\ fetches = <<>>
  /\ response = NoResponse
  /\ text = Unread
  /\ returned = NoReturn
  /\ requestError = NoError
  /\ result = NoValue
  /\ error = NoError

\* An optional parameter: present is FALSE for undefined.
NoString == [present |-> FALSE, value |-> <<>>]
NoNumber == [present |-> FALSE, value |-> 0]
NoArray == [present |-> FALSE, value |-> <<>>]
Some(v) == [present |-> TRUE, value |-> v]

NoParams ==
  [email |-> NoString, userId |-> NoString, limit |-> NoNumber,
   campaignIds |-> NoArray, startDateTime |-> NoString,
   endDateTime |-> NoString, messageMedium |-> NoString]

\* A call of request(): the base URL of the client, the path, whether an
\* options.params object is given and its entries in key order.
NoCall == [baseUrl |-> "", path |-> <<>>, given |-> FALSE, entries |-> <<>>]

QueryIdle ==
  /\ params = NoParams
  /\ path = <<>>
  /\ options = NoCall
  /\ url = <<>>

(***************************************************************************)
(* Actions of the permission evaluator.                                    *)
(***************************************************************************)

FilterIdle ==
  /\ toolName = ""
  /\ config = [allowUserPii |-> FALSE, allowWrites |-> FALSE, allowSends |-> FALSE]
  /\ called = {}
  /\ allowed = FALSE
  /\ reason = Null
  /\ omitted = Null
  /\ allowedOmitted = FALSE

WorkerIdle ==
  /\ env = [ITERABLE_API_KEY |-> Undefined, ITERABLE_USER_PII |-> "false",
            ITERABLE_ENABLE_WRITES |-> "false", ITERABLE_ENABLE_SENDS |-> "false"]
  /\ last = NoRequest
  /\ agents = EmptyBag

FilterInit ==
  /\ toolName \in ToolNames
  /\ config \in Configs
  /\ called = {}
  /\ allowed = FALSE
  /\ reason = Null
  /\ omitted = Null
  /\ allowedOmitted = FALSE
  /\ WorkerIdle
  /\ ClientIdle
  /\ QueryIdle

CallIsToolAllowed ==
  /\ "isToolAllowed" \notin called
  /\ allowed' = isToolAllowed(toolName, config)
  /\ called' = called \cup {"isToolAllowed"}
  /\ UNCHANGED <<toolName, config, reason, omitted, allowedOmitted>>
  /\ UNCHANGED <<workerVars, clientVars, queryVars>>

CallGetBlockedReason ==
  /\ "getBlockedReason" \notin called
  /\ reason' = getBlockedReason(toolName, config)
  /\ called' = called \cup {"getBlockedReason"}
  /\ UNCHANGED <<toolName, config, allowed, omitted, allowedOmitted>>
  /\ UNCHANGED <<workerVars, clientVars, queryVars>>

\* isToolAllowed evaluated against the tables with toolName left out of one.
CallIsToolAllowedWithout ==
  /\ omitted = Null
  /\ \E table \in TableNames :
       LET t == TableWithout(table, toolName) IN
         /\ omitted' = table
         /\ allowedOmitted' =
              isToolAllowedWith(toolName, config, t.NON_PII_TOOLS,
                                t.READ_ONLY_TOOLS, t.SEND_TOOLS)
  /\ UNCHANGED <<toolName, config, called, allowed, reason>>
  /\ UNCHANGED <<workerVars, clientVars, queryVars>>

FilterNext ==
  \/ CallIsToolAllowed
  \/ CallGetBlockedReason
  \/ CallIsToolAllowedWithout

FilterSpec == FilterInit /\ [][FilterNext]_vars

(***************************************************************************)
(* Actions of the worker and of the agent.                                 *)
(***************************************************************************)

Init ==
  /\ env \in [ITERABLE_API_KEY : EnvKeyValues,
              ITERABLE_USER_PII : FlagValues,
              ITERABLE_ENABLE_WRITES : FlagValues,
              ITERABLE_ENABLE_SENDS : FlagValues]
  /\ last = NoRequest
  /\ agents = EmptyBag
  /\ FilterIdle
  /\ ClientIdle
  /\ QueryIdle

(***************************************************************************)
(* Tool invocation (index.ts): server.tool(name, description, schema,      *)
(* handler).                                                               *)
(***************************************************************************)

\* The arguments objects of the tools/call requests of the model, by tool
\* name: none; for get_campaign also an id that is a number and one that is
\* a string; for get_user_by_user_id also a userId that is well formed and
\* one that is a lone surrogate.
ToolArguments(n) ==
  LET none == [id |-> NoValue, email |-> NoValue, userId |-> NoValue] IN
    CASE n = "get_campaign" ->
           { none,
             [none EXCEPT !.id = NumberValue(<<1>>)],
             [none EXCEPT !.id = StringValue(<<"a">>)] }
      [] n = "get_user_by_user_id" ->
           { none,
             [none EXCEPT !.userId = StringValue(<<"a">>)],
             [none EXCEPT !.userId = StringValue(<<HighSurrogate>>)] }
      [] OTHER -> {none}

\* The handler of the tool n, run with the parsed arguments:
\* await this.getClient().<method>(...).  getUserByEmail and getUserByUserId
\* build their path with encodeURIComponent, which throws URIError for a
\* string that is not well formed, so that the handler rejects before
\* request() is called; every other call issues the fetch of request() and
\* awaits it.
Handler(a, n, args) ==
  LET encoded == CASE n = "get_user_by_email" -> args.email
                   [] n = "get_user_by_user_id" -> args.userId
                   [] OTHER -> NoValue
      throws == encoded.type = "string" /\ ~encodeURIComponent(encoded.str).ok
  IN  IF throws
      THEN [a EXCEPT !.tool = n, !.result = "threw", !.fetches = <<>>]
      ELSE [a EXCEPT !.tool = n, !.result = "pending",
                     !.fetches = <<[tool |-> n,
                                    headers |-> RequestHeaders(getClient(a.env))]>>]

\* A tools/call for the name n with the arguments args reaches the session
\* a.  A name without a handler is answered with an error; so are arguments
\* the schema of the tool rejects, and the handler does not run.
\* SchemaAccepts is the schema of get_campaigns, get_campaign,
\* get_user_by_email and get_user_by_user_id: every parameter of
\* get_campaigns is optional, id is z.number(), email is
\* z.string().email(), userId is z.string().  IsEmail is the address test
\* of zod over the characters of the model: a local part of letters,
\* digits and _ ' + - . that does not start with a dot nor end with one, no
\* two dots in a row, and after the @ labels of letters, digits and -,
\* each starting with a letter or digit, the last of two letters or more.
ToolsCall(a, n, args) ==
  LET letters == {"a", "b", "c", "o"}
      word == letters \cup Digits
      IsEmail(s) ==
        \E i \in 2..Len(s) :
          /\ s[i] = "@"
          /\ \A j \in 1..Len(s) : s[j] = "@" => j = i
          /\ s[1] # "."
          /\ \A j \in 1..(Len(s) - 1) : ~(s[j] = "." /\ s[j + 1] = ".")
          /\ \A j \in 1..(i - 2) : s[j] \in word \cup {"_", "'", "+", "-", "."}
          /\ s[i - 1] \in word \cup {"_", "+", "-"}
          /\ \A j \in (i + 1)..Len(s) : s[j] \in word \cup {"-", "."}
          /\ \A j \in i..Len(s) :
               s[j] \in {"@", "."} => (j < Len(s) /\ s[j + 1] \in word)
          /\ \E d \in (i + 1)..(Len(s) - 2) :
               /\ s[d] = "."
               /\ \A j \in (d + 1)..Len(s) : s[j] \in letters
      SchemaAccepts ==
        CASE n = "get_campaigns" -> TRUE
          [] n = "get_campaign" -> args.id.type = "number"
          [] n = "get_user_by_email" ->
               args.email.type = "string" /\ IsEmail(args.email.str)
          [] n = "get_user_by_user_id" -> args.userId.type = "string"
  IN  IF n \in a.registered /\ SchemaAccepts
      THEN Handler(a, n, args)
      ELSE [a EXCEPT !.tool = n, !.result = "error", !.fetches = <<>>]

\* The 401 response of the worker; its body is a fixed document.
RejectResponse(apiKey) == [status |-> 401, body |-> API_KEY_REQUIRED]

\* Variant: the informational document quotes the key of the caller in its
\* example.
InfoResponse_EchoKey(apiKey) ==
  [status |-> 200, body |-> IF Truthy(apiKey) THEN apiKey ELSE SERVER_INFO]

\* The 200 response of the worker; its body is a fixed document.
InfoResponse(apiKey) == [status |-> 200, body |-> SERVER_INFO]

\* default.fetch(request, env, ctx).  The record left in last holds the
\* request, the resolved key, who answered, and the ITERABLE_API_KEY of the
\* env handed to the transport (Null when nothing was handed on); a request
\* handed on is in the transport, which serves it in a session.
WorkerFetchOn(pathnames, headers) ==
  \E pathname \in pathnames, query \in QueryValues, header \in headers :
    LET apiKey == ExtractApiKey(query, header, env)
        envWithKey == EnvWithKey(env, apiKey)
    IN
      IF ApiKeyRequired(apiKey, pathname)
      THEN /\ last' = [pathname |-> pathname, query |-> query, header |-> header,
                       apiKey |-> apiKey, handledBy |-> "worker",
                       status |-> RejectResponse(apiKey).status,
                       body |-> RejectResponse(apiKey).body,
                       passedKey |-> Null, inTransport |-> FALSE]
           /\ UNCHANGED <<env, agents>>
           /\ UNCHANGED <<filterVars, clientVars, queryVars>>
      ELSE IF Transport(pathname) # "none"
      THEN /\ last' = [pathname |-> pathname, query |-> query, header |-> header,
                       apiKey |-> apiKey, handledBy |-> Transport(pathname),
                       status |-> 0, body |-> Null,
                       passedKey |-> envWithKey.ITERABLE_API_KEY,
                       inTransport |-> TRUE]
           /\ UNCHANGED <<env, agents>>
           /\ UNCHANGED <<filterVars, clientVars, queryVars>>
      ELSE /\ last' = [pathname |-> pathname, query |-> query, header |-> header,
                       apiKey |-> apiKey, handledBy |-> "worker",
                       status |-> InfoResponse(apiKey).status,
                       body |-> InfoResponse(apiKey).body,
                       passedKey |-> Null, inTransport |-> FALSE]
           /\ UNCHANGED <<env, agents>>
           /\ UNCHANGED <<filterVars, clientVars, queryVars>>

\* The requests of the model of worker and sessions: the header is absent
\* or holds a key (RouteSpec has the empty header too).
WorkerFetch == WorkerFetchOn(Paths, HeaderValues \ {""})

\* serve(...).fetch(request, envWithKey, ctx) for a request that opens a
\* session: an agent is made for it.
SessionOpens ==
  /\ last.inTransport
  /\ BagCardinality(agents) < MaxAgents
  /\ \E e \in SessionEnvs(env, EnvWithKey(env, last.passedKey)) :
       agents' = agents (+) SetToBag({NewAgent(e)})
  /\ last' = [last EXCEPT !.inTransport = FALSE]
  /\ UNCHANGED env
  /\ UNCHANGED <<filterVars, clientVars, queryVars>>

\* serve(...).fetch(request, envWithKey, ctx) for a request that carries a
\* tools/call to a session that exists.
ToolsCallArrives ==
  /\ last.inTransport
  /\ \E a \in AgentSet, n \in InvokeNames :
       \E args \in ToolArguments(n) :
       /\ a.pc = "ready"
       /\ agents' = ReplaceAgent(a, ToolsCall(a, n, args))
  /\ last' = [last EXCEPT !.inTransport = FALSE]
  /\ UNCHANGED env
  /\ UNCHANGED <<filterVars, clientVars, queryVars>>

\* serve(...).fetch(request, envWithKey, ctx) for any other request
\* (tools/list, a notification, an unknown session id): no session changes.
MessageServed ==
  /\ last.inTransport
  /\ last' = [last EXCEPT !.inTransport = FALSE]
  /\ UNCHANGED <<env, agents>>
  /\ UNCHANGED <<filterVars, clientVars, queryVars>>

\* IterableMcpAgent.init(), run by the session before it handles a message.
AgentInit ==
  \E a \in AgentSet :
    /\ a.pc = "created"
    /\ agents' = ReplaceAgent(a, [a EXCEPT !.pc = "ready",
                                           !.registered = RegisteredTools(a.env)])
    /\ UNCHANGED <<env, last>>
    /\ UNCHANGED <<filterVars, clientVars, queryVars>>

\* The call a handler awaits settles: request() resolved and the handler
\* returns its content, or the call rejected and the handler, which has no
\* catch, rejects with the same error.
HandlerSettles ==
  \E a \in AgentSet, outcome \in {"returned", "rejected"} :
    /\ a.result = "pending"
    /\ agents' = ReplaceAgent(a, [a EXCEPT !.result = outcome])
    /\ UNCHANGED <<env, last>>
    /\ UNCHANGED <<filterVars, clientVars, queryVars>>

Next ==
  \/ WorkerFetch
  \/ SessionOpens
  \/ ToolsCallArrives
  \/ MessageServed
  \/ AgentInit
  \/ HandlerSettles

Spec == Init /\ [][Next]_vars

(***************************************************************************)
(* One call of an IterableClient method: the path is built, request()      *)
(* issues its fetch, the response settles, the body is read, and the       *)
(* method resolves or rejects.                                             *)
(***************************************************************************)

ClientInit ==
  /\ method \in ClientMethods
  /\ arg \in ArgsOf(method)
  /\ pc = "start"
  /\ fetches = <<>>
  /\ response = NoResponse
  /\ text = Unread
  /\ returned = NoReturn
  /\ requestError = NoError
  /\ result = NoValue
  /\ error = NoError
  /\ FilterIdle
  /\ WorkerIdle
  /\ QueryIdle

\* The method body up to the await of fetch().  encodeURIComponent runs in
\* the method, before request() and outside its try block: when it throws,
\* request() is never called and the method rejects with what was thrown.
CallMethod ==
  /\ pc = "start"
  /\ IF method = "getUserByUserId" /\ ~encodeURIComponent(arg).ok
     THEN /\ pc' = "rejected"
          /\ error' = encodeURIComponent(arg).thrown
          /\ UNCHANGED fetches
     ELSE /\ pc' = "fetching"
          /\ fetches' = Append(fetches, [method |-> "GET",
                                         path |-> MethodPath(method, arg)])
          /\ UNCHANGED error
  /\ UNCHANGED <<method, arg, response, text, returned, requestError, result>>
  /\ UNCHANGED <<filterVars, workerVars, queryVars>>

\* Variant: a failed fetch is issued once more before the error is raised.
FetchRejects_Retry ==
  /\ pc = "fetching"
  /\ \E e \in FetchErrors :
       IF Len(fetches) < 2
       THEN /\ fetches' = Append(fetches, fetches[1])
            /\ UNCHANGED <<pc, response, requestError>>
       ELSE /\ response' = [NoResponse EXCEPT !.settled = "rejected", !.thrown = e]
            /\ requestError' = CatchBlock(e)
            /\ pc' = "threw"
            /\ UNCHANGED fetches
  /\ UNCHANGED <<method, arg, text, returned, result, error>>
  /\ UNCHANGED <<filterVars, workerVars, queryVars>>

\* fetch() rejects: the catch block of request() runs and request() rejects;
\* the method that awaits it has not continued yet.
FetchRejects ==
  /\ pc = "fetching"
  /\ \E e \in FetchErrors :
       /\ response' = [NoResponse EXCEPT !.settled = "rejected", !.thrown = e]
       /\ requestError' = CatchBlock(e)
  /\ pc' = "threw"
  /\ UNCHANGED <<method, arg, fetches, text, returned, result, error>>
  /\ UNCHANGED <<filterVars, workerVars, queryVars>>

\* fetch() resolves with a response; response.ok selects the branch.
FetchResolves ==
  /\ pc = "fetching"
  /\ \E r \in ResponseStatuses :
       /\ response' = [settled |-> "resolved", status |-> r.status,
                       statusText |-> r.statusText, thrown |-> NoError]
       /\ pc' = IF IsOk(r) THEN "readingBody" ELSE "readingErrorBody"
  /\ UNCHANGED <<method, arg, fetches, text, returned, requestError, result, error>>
  /\ UNCHANGED <<filterVars, workerVars, queryVars>>

\* !response.ok: response.text() settles.  request() awaits the promise of
\* .catch(() => ""), which settles after it: request() is still pending.
ErrorBodySettles ==
  /\ pc = "readingErrorBody"
  /\ text' \in [state : {"read"}, value : ErrorBodies, thrown : {NoError}]
               \cup [state : {"failed"}, value : {<<>>}, thrown : ReadErrors]
  /\ pc' = "errorBodyRead"
  /\ UNCHANGED <<method, arg, fetches, response, returned, requestError, result, error>>
  /\ UNCHANGED <<filterVars, workerVars, queryVars>>

\* The body request() continues with after .catch(() => ""): the text that
\* was read, the empty string when the read failed.
CaughtBody(t) == IF t.state = "read" THEN t.value ELSE <<>>

\* !response.ok, continued: the IterableApiError is thrown inside the try
\* block and passes the catch block; request() rejects, the method that
\* awaits it has not continued yet.
ErrorStatusThrows ==
  /\ pc = "errorBodyRead"
  /\ requestError' = CatchBlock(IterableApiError(response.status,
                                                 response.statusText,
                                                 CaughtBody(text)))
  /\ pc' = "threw"
  /\ UNCHANGED <<method, arg, fetches, response, text, returned, result, error>>
  /\ UNCHANGED <<filterVars, workerVars, queryVars>>

\* response.ok: response.text() resolves and request() returns the
\* normalized value: its promise is resolved, the method that awaits it has
\* not continued yet.
BodyResolves ==
  /\ pc = "readingBody"
  /\ \E t \in Bodies :
       /\ text' = [state |-> "read", value |-> t, thrown |-> NoError]
       /\ returned' = Normalize(t)
  /\ pc' = "returned"
  /\ UNCHANGED <<method, arg, fetches, response, requestError, result, error>>
  /\ UNCHANGED <<filterVars, workerVars, queryVars>>

\* The method continues after request() has resolved, in a later microtask:
\* getListSize and getListUsers lift the value, the other methods resolve
\* with it.
MethodResolves ==
  /\ pc = "returned"
  /\ result' = MethodResult(method, returned.value)
  /\ pc' = "resolved"
  /\ UNCHANGED <<method, arg, fetches, response, text, returned, requestError, error>>
  /\ UNCHANGED <<filterVars, workerVars, queryVars>>

\* Variant: the error of a failed body read carries the status line of the
\* response that was received.
BodyRejects_KeepsStatus ==
  /\ pc = "readingBody"
  /\ \E e \in ReadErrors :
       /\ text' = [state |-> "failed", value |-> <<>>, thrown |-> e]
       /\ requestError' = IterableApiError(response.status, response.statusText,
                                           e.message)
  /\ pc' = "threw"
  /\ UNCHANGED <<method, arg, fetches, response, returned, result, error>>
  /\ UNCHANGED <<filterVars, workerVars, queryVars>>

\* response.ok: response.text() rejects inside the try block; the catch
\* block runs and request() rejects, the method has not continued yet.
BodyRejects ==
  /\ pc = "readingBody"
  /\ \E e \in ReadErrors :
       /\ text' = [state |-> "failed", value |-> <<>>, thrown |-> e]
       /\ requestError' = CatchBlock(e)
  /\ pc' = "threw"
  /\ UNCHANGED <<method, arg, fetches, response, returned, result, error>>
  /\ UNCHANGED <<filterVars, workerVars, queryVars>>

\* The method continues after request() has rejected, in a later microtask:
\* no method catches, so it rejects with the error of request().
MethodRejects ==
  /\ pc = "threw"
  /\ error' = requestError
  /\ pc' = "rejected"
  /\ UNCHANGED <<method, arg, fetches, response, text, returned, requestError, result>>
  /\ UNCHANGED <<filterVars, workerVars, queryVars>>

ClientNext ==
  \/ CallMethod
  \/ FetchRejects
  \/ FetchResolves
  \/ ErrorBodySettles
  \/ ErrorStatusThrows
  \/ BodyResolves
  \/ MethodResolves
  \/ BodyRejects
  \/ MethodRejects

ClientSpec == ClientInit /\ [][ClientNext]_vars

\* The upstream settles: an enabled step of the call is eventually taken.
FairClientSpec == ClientSpec /\ WF_vars(ClientNext)

(***************************************************************************)
(* IterableClient.getSentMessages: the query string it builds.  A path is  *)
(* a sequence of tokens: the base path, "?", and for each pair the key,    *)
(* "=", the encoded characters of the value, with "&" between pairs.       *)
(***************************************************************************)

\* Bound on the length of a campaignIds array.
MaxIds == 3

CampaignIdValues == {1, 2, 30}

RECURSIVE SeqsUpTo(_, _)
SeqsUpTo(S, n) ==
  IF n = 0 THEN {<<>>}
  ELSE SeqsUpTo(S, n - 1)
         \cup {Append(s, x) : s \in {t \in SeqsUpTo(S, n - 1) : Len(t) = n - 1},
                              x \in S}

\* application/x-www-form-urlencoded of one character, as
\* URLSearchParams.toString() writes it.
FormEncodeChar(c) ==
  CASE c = " " -> "+"
    [] c = "@" -> "%40"
    [] c = ":" -> "%3A"
    [] c = "," -> "%2C"
    [] c = "[" -> "%5B"
    [] c = "]" -> "%5D"
    [] OTHER -> c

FormEncode(s) == [i \in 1..Len(s) |-> FormEncodeChar(s[i])]

\* searchParams.append(key, String(value)) for each entry in turn, then
\* toString(): the pairs joined by "&".
RECURSIVE JoinPairs(_)
JoinPairs(pairs) ==
  IF pairs = <<>> THEN <<>>
  ELSE <<pairs[1].key, "=">> \o FormEncode(pairs[1].value)
         \o (IF Len(pairs) = 1 THEN <<>> ELSE <<"&">> \o JoinPairs(Tail(pairs)))

\* The entries of queryParams whose value is not undefined, in key order.
ScalarPairs(p) ==
  LET entries ==
        << [key |-> "email", present |-> p.email.present, value |-> p.email.value],
           [key |-> "userId", present |-> p.userId.present, value |-> p.userId.value],
           [key |-> "limit", present |-> p.limit.present,
            value |-> NumberToString(NatOf(p.limit.value))],
           [key |-> "startDateTime", present |-> p.startDateTime.present,
            value |-> p.startDateTime.value],
           [key |-> "endDateTime", present |-> p.endDateTime.present,
            value |-> p.endDateTime.value],
           [key |-> "messageMedium", present |-> p.messageMedium.present,
            value |-> p.messageMedium.value] >>
      IsPresent(e) == e.present
      kept == SelectSeq(entries, IsPresent)
  IN [i \in 1..Len(kept) |-> [key |-> kept[i].key, value |-> kept[i].value]]

RECURSIVE JoinComma(_)
JoinComma(ids) ==
  IF ids = <<>> THEN <<>>
  ELSE NumberToString(NatOf(ids[1]))
         \o (IF Len(ids) = 1 THEN <<>> ELSE <<",">> \o JoinComma(Tail(ids)))

\* Variant: the array goes through String(value) like the scalars.
ArrayPairs_CommaJoined(p) ==
  IF p.campaignIds.present
  THEN << [key |-> "campaignIds", value |-> JoinComma(p.campaignIds.value)] >>
  ELSE <<>>

\* if (params.campaignIds) for (const id of params.campaignIds)
\*   searchParams.append("campaignIds", String(id))
ArrayPairs(p) ==
  IF p.campaignIds.present
  THEN [i \in 1..Len(p.campaignIds.value) |->
          [key |-> "campaignIds", value |-> NumberToString(NatOf(p.campaignIds.value[i]))]]
  ELSE <<>>

SENT_MESSAGES_PATH == "/api/users/getSentMessages"

\* The path getSentMessages hands to request().
SentMessagesPath(p) ==
  LET queryString == JoinPairs(ScalarPairs(p) \o ArrayPairs(p)) IN
    IF queryString # <<>>
    THEN <<SENT_MESSAGES_PATH, "?">> \o queryString
    ELSE <<SENT_MESSAGES_PATH>>

OptStrings(values) == {NoString} \cup {Some(v) : v \in values}

QueryInit ==
  /\ params \in
       [email : OptStrings({<<"a", "@", "b">>}),
        userId : OptStrings({<<"u", " ", "1">>}),
        limit : {NoNumber, Some(0), Some(10)},
        campaignIds : {NoArray} \cup {Some(ids) : ids \in SeqsUpTo(CampaignIdValues, MaxIds)},
        startDateTime : OptStrings({<<"1", ":", "0">>}),
        endDateTime : OptStrings({<<"2", ":", "0">>}),
        messageMedium : OptStrings({<<"E", "m", "a", "i", "l">>})]
  /\ path = <<>>
  /\ options = NoCall
  /\ url = <<>>
  /\ FilterIdle
  /\ WorkerIdle
  /\ ClientIdle

\* getSentMessages(params) up to its call of request("GET", path).
CallGetSentMessages ==
  /\ path = <<>>
  /\ path' = SentMessagesPath(params)
  /\ UNCHANGED <<params, options, url>>
  /\ UNCHANGED <<filterVars, workerVars, clientVars>>

QueryNext == CallGetSentMessages

QuerySpec == QueryInit /\ [][QueryNext]_vars

(***************************************************************************)
(* parseConfig applied to an environment whose permission variables hold   *)
(* arbitrary strings or are missing.                                       *)
(***************************************************************************)

\* What a permission variable can hold; Undefined is a missing variable.
AnyFlagValues == {Undefined, "", "true", "TRUE", "True", " true", "1", "false"}

ConfigInit ==
  /\ env \in [ITERABLE_API_KEY : {Undefined},
              ITERABLE_USER_PII : AnyFlagValues,
              ITERABLE_ENABLE_WRITES : AnyFlagValues,
              ITERABLE_ENABLE_SENDS : AnyFlagValues]
  /\ last = NoRequest
  /\ agents = EmptyBag
  /\ FilterIdle
  /\ ClientIdle
  /\ QueryIdle

\* const config = parseConfig(this.env)
CallParseConfig ==
  /\ "parseConfig" \notin called
  /\ config' = parseConfig(env)
  /\ called' = called \cup {"parseConfig"}
  /\ UNCHANGED <<toolName, allowed, reason, omitted, allowedOmitted>>
  /\ UNCHANGED <<workerVars, clientVars, queryVars>>

ConfigNext == CallParseConfig

ConfigSpec == ConfigInit /\ [][ConfigNext]_vars

(***************************************************************************)
(* Routing of default.fetch over a wider set of paths; the sessions it     *)
(* starts receive no message.                                              *)
(***************************************************************************)

\* The routed paths and paths next to them.
RoutePaths == Paths \cup {"/health", "/mcp/", "/sse/messages", "/MCP"}

RouteFetch == WorkerFetchOn(RoutePaths, HeaderValues)

RouteNext == RouteFetch

RouteSpec == Init /\ [][RouteNext]_vars

(***************************************************************************)
(* IterableClient.request: the URL it builds from base URL, path and       *)
(* options.params.  A URL is a sequence of tokens like a path.             *)
(***************************************************************************)

DEFAULT_BASE_URL == "https://api.iterable.com"

\* config.baseUrl: missing, or the URL of another region.
BaseUrlValues == {Undefined, "https://api.eu.iterable.com"}

\* this.baseUrl = config.baseUrl || "https://api.iterable.com"
BaseUrl(configured) == Or(configured, DEFAULT_BASE_URL)

\* An entry of options.params: present is FALSE for undefined.
Entry(key, opt, v) == [key |-> key, present |-> opt.present, value |-> v]

StringEntry(key, opt) == Entry(key, opt, StringValue(opt.value))
NumberEntry(key, opt) == Entry(key, opt, NumberValue(NatOf(opt.value)))

TemplateStrings == {NoString, Some(<<>>), Some(<<"a", " ", "b">>)}

\* The calls of request() the model makes: getCampaign(12) gives no
\* options, getTemplates hands on four optional strings, and
\* getUserEventsByEmail an address and an optional limit.
RequestCalls(baseUrl) ==
  {[baseUrl |-> baseUrl, path |-> <<"/api/campaigns/", "1", "2">>,
    given |-> FALSE, entries |-> <<>>]}
  \cup
  {[baseUrl |-> baseUrl, path |-> <<"/api/templates">>, given |-> TRUE,
    entries |-> <<StringEntry("templateType", t), StringEntry("messageMedium", m),
                  StringEntry("startDateTime", s), StringEntry("endDateTime", e)>>] :
     t \in TemplateStrings, m \in TemplateStrings,
     s \in {NoString, Some(<<"1", ":", "0">>)}, e \in {NoString, Some(<<"2", ":", "0">>)}}
  \cup
  {[baseUrl |-> baseUrl, path |-> <<"/api/events">>, given |-> TRUE,
    entries |-> <<StringEntry("email", Some(<<"a", "@", "b">>)),
                  NumberEntry("limit", l)>>] :
     l \in {NoNumber, Some(0), Some(10)}}

IsDefined(entry) == entry.present

\* Variant: the test for undefined is missing, String(undefined) is
\* appended.
ParamPairs_NoUndefinedTest(entries) ==
  [i \in 1..Len(entries) |->
     [key |-> entries[i].key,
      value |-> IF entries[i].present THEN StringOf(entries[i].value)
                ELSE <<"u", "n", "d", "e", "f", "i", "n", "e", "d">>]]

\* for (const [key, value] of Object.entries(options.params))
\*   if (value !== undefined) searchParams.append(key, String(value))
ParamPairs(entries) ==
  LET kept == SelectSeq(entries, IsDefined) IN
    [i \in 1..Len(kept) |-> [key |-> kept[i].key, value |-> StringOf(kept[i].value)]]

\* The URL request() fetches.
RequestUrl(call) ==
  LET queryString == IF call.given THEN JoinPairs(ParamPairs(call.entries)) ELSE <<>>
  IN <<call.baseUrl>> \o call.path
       \o (IF queryString # <<>> THEN <<"?">> \o queryString ELSE <<>>)

UrlInit ==
  /\ options \in UNION {RequestCalls(BaseUrl(b)) : b \in BaseUrlValues}
  /\ url = <<>>
  /\ params = NoParams
  /\ path = <<>>
  /\ FilterIdle
  /\ WorkerIdle
  /\ ClientIdle

\* request(method, path, options) up to its call of fetch(url, ...).
CallRequest ==
  /\ url = <<>>
  /\ url' = RequestUrl(options)
  /\ UNCHANGED <<params, path, options>>
  /\ UNCHANGED <<filterVars, workerVars, clientVars>>

UrlNext == CallRequest

UrlSpec == UrlInit /\ [][UrlNext]_vars

(***************************************************************************)
(* Properties of the permission evaluator, checked under FilterSpec.       *)
(***************************************************************************)

PiiCheckFails == ~config.allowUserPii /\ toolName \notin NON_PII_TOOLS
WriteCheckFails == ~config.allowWrites /\ toolName \notin READ_ONLY_TOOLS
SendCheckFails == ~config.allowSends /\ toolName \in SEND_TOOLS
InNoCapabilitySet ==
  toolName \notin (NON_PII_TOOLS \cup READ_ONLY_TOOLS \cup SEND_TOOLS)
AllFlagsFalse ==
  ~config.allowUserPii /\ ~config.allowWrites /\ ~config.allowSends
ConfigLeq(c1, c2) ==
  /\ c1.allowUserPii => c2.allowUserPii
  /\ c1.allowWrites => c2.allowWrites
  /\ c1.allowSends => c2.allowSends

\* C1: for every tool name and every configuration, isToolAllowed returns
\* true exactly when getBlockedReason returns null.
C1_AllowedIffNoReason ==
  called = {"isToolAllowed", "getBlockedReason"} =>
    (allowed <=> reason = Null)

\* A name of no capability set has been evaluated by both functions and is
\* denied with a reason.
C1_Witness ==
  /\ called = {"isToolAllowed", "getBlockedReason"}
  /\ toolName = ""
  /\ ~allowed
  /\ reason # Null

\* C2: getBlockedReason reports the first failing check in the order PII,
\* write, send: the PII reason whenever the PII check fails, the write
\* reason only when the PII check passes, the send reason only when the PII
\* and the write check pass.
C2_ReasonPrecedence ==
  "getBlockedReason" \in called =>
    /\ PiiCheckFails => reason = PII_REASON
    /\ reason = WRITE_REASON => ~PiiCheckFails /\ WriteCheckFails
    /\ reason = SEND_REASON =>
         ~PiiCheckFails /\ ~WriteCheckFails /\ SendCheckFails

\* send_email fails all three checks under the all-false configuration and
\* the PII reason is reported.
C2_Witness ==
  /\ "getBlockedReason" \in called
  /\ toolName = "send_email"
  /\ PiiCheckFails /\ WriteCheckFails /\ SendCheckFails
  /\ reason = PII_REASON

\* C3 as stated: the empty name and every name of no capability set is
\* denied under each of the 8 configurations.
C3_DefaultDenyEveryConfig ==
  ("isToolAllowed" \in called /\ InNoCapabilitySet) => ~allowed

\* C3 as amended: a name of no capability set is denied exactly under the
\* configurations in which allowUserPii or allowWrites is false; with both
\* true it is allowed, whatever allowSends is.
C3_DefaultDenyUnlessPiiAndWrites ==
  ("isToolAllowed" \in called /\ InNoCapabilitySet) =>
    (allowed <=> (config.allowUserPii /\ config.allowWrites))

\* The empty name has been evaluated with PII off and both other flags on,
\* and is denied.
C3_Witness ==
  /\ "isToolAllowed" \in called
  /\ toolName = ""
  /\ ~config.allowUserPii /\ config.allowWrites /\ config.allowSends
  /\ ~allowed

\* C4: a tool allowed under a configuration is allowed under every
\* configuration that has at least the same flags on.
C4_Monotone ==
  ("isToolAllowed" \in called /\ allowed) =>
    \A c2 \in Configs : ConfigLeq(config, c2) => isToolAllowed(toolName, c2)

\* send_campaign is allowed with writes and sends on and PII off; a strictly
\* larger configuration exists.
C4_Witness ==
  /\ "isToolAllowed" \in called
  /\ toolName = "send_campaign"
  /\ ~config.allowUserPii /\ config.allowWrites /\ config.allowSends
  /\ allowed

\* C5 as stated: leaving the name out of any one of the three sets never
\* turns a denied tool into an allowed one.
C5_OmissionNeverGrants ==
  omitted # Null => (allowedOmitted => isToolAllowed(toolName, config))

\* C5 as amended: leaving the name out of NON_PII_TOOLS or READ_ONLY_TOOLS
\* never turns a denied tool into an allowed one; leaving it out of
\* SEND_TOOLS never turns an allowed tool into a denied one.
C5_OmissionFailSafeForSafeLists ==
  /\ omitted \in {"NON_PII_TOOLS", "READ_ONLY_TOOLS"} =>
       (allowedOmitted => isToolAllowed(toolName, config))
  /\ omitted = "SEND_TOOLS" =>
       (isToolAllowed(toolName, config) => allowedOmitted)

\* get_campaigns, allowed under the all-false configuration, has been
\* evaluated without its READ_ONLY_TOOLS entry and is denied.
C5_Witness ==
  /\ omitted = "READ_ONLY_TOOLS"
  /\ toolName = "get_campaigns"
  /\ AllFlagsFalse
  /\ isToolAllowed(toolName, config)
  /\ ~allowedOmitted

\* C10: with all three flags false a tool is allowed only if it is in
\* NON_PII_TOOLS, in READ_ONLY_TOOLS and not in SEND_TOOLS.
C10_ReadOnlyDefault ==
  ("isToolAllowed" \in called /\ AllFlagsFalse /\ allowed) =>
    /\ toolName \in NON_PII_TOOLS
    /\ toolName \in READ_ONLY_TOOLS
    /\ toolName \notin SEND_TOOLS

\* get_campaigns is allowed under the all-false configuration.
C10_Witness ==
  /\ "isToolAllowed" \in called
  /\ AllFlagsFalse
  /\ toolName = "get_campaigns"
  /\ allowed

(***************************************************************************)
(* Properties of the worker and the agent, checked under Spec.             *)
(***************************************************************************)

Handled == last.handledBy # "none"
Dispatched == last.handledBy \in {"sse", "mcp"}
ProtectedRoute == last.pathname \in {"/mcp", "/sse", "/sse/message"}
NoCredential ==
  ~Truthy(last.query) /\ ~Truthy(last.header) /\ ~Truthy(env.ITERABLE_API_KEY)

\* C6: the credential handed to the transport is the query value when
\* query, header and default are all given and pairwise different, the
\* header value when the query parameter is absent, and the default when
\* query and header are both absent.
C6_CredentialPrecedence ==
  Dispatched =>
    /\ ( /\ Truthy(last.query) /\ Truthy(last.header)
         /\ Truthy(env.ITERABLE_API_KEY)
         /\ last.query # last.header
         /\ last.query # env.ITERABLE_API_KEY
         /\ last.header # env.ITERABLE_API_KEY )
       => last.passedKey = last.query
    /\ (last.query = Null /\ Truthy(last.header))
       => last.passedKey = last.header
    /\ (last.query = Null /\ last.header = Null)
       => last.passedKey = env.ITERABLE_API_KEY

\* A request with all three credentials has been handed to a transport.
C6_Witness ==
  /\ Dispatched
  /\ last.query = "key-q" /\ last.header = "key-h"
  /\ env.ITERABLE_API_KEY = "key-e"
  /\ last.passedKey = "key-q"

\* C7: on /mcp, /sse and /sse/message a request without any non-empty
\* credential is answered 401 by the worker, nothing is handed to a
\* transport and no agent is started for it; a request with a non-empty
\* credential is never answered 401.
C7_RejectWithoutCredential ==
  /\ [](Handled =>
          /\ (ProtectedRoute /\ NoCredential) =>
               /\ last.status = 401
               /\ last.handledBy = "worker"
               /\ last.body = API_KEY_REQUIRED
               /\ last.passedKey = Null
          /\ ~NoCredential => last.status # 401)
  /\ [][(last' # last /\ last'.status = 401) => agents' = agents]_vars

\* A message post without credential has been rejected while an agent of an
\* earlier request is running.
C7_Witness ==
  /\ last.pathname = "/sse/message"
  /\ last.query = "" /\ last.header = Null
  /\ last.status = 401
  /\ agents # EmptyBag

\* C9: every outbound fetch is made for a tool that isToolAllowed permits
\* under the configuration parsed from the environment; init registers each
\* of its tools exactly when isToolAllowed permits it; invoking a denied or
\* unknown name yields an error and no fetch.
C9_OnlyAllowedToolsCallUpstream ==
  \A a \in AgentSet :
    /\ \A i \in 1..Len(a.fetches) :
         /\ a.fetches[i].tool = a.tool
         /\ isToolAllowed(a.fetches[i].tool, parseConfig(env))
    /\ a.pc # "created" =>
         /\ a.registered \subseteq InitTools
         /\ \A n \in InitTools :
              n \in a.registered <=> isToolAllowed(n, parseConfig(env))
    /\ ( /\ a.tool # Null
         /\ (a.tool \notin InitTools \/ ~isToolAllowed(a.tool, parseConfig(env))) )
       => (a.result = "error" /\ a.fetches = <<>>)

\* With PII off, one agent has refused get_user_by_user_id and another has
\* issued the fetch of get_campaign.
C9_Witness ==
  /\ env.ITERABLE_USER_PII = "false"
  /\ \E a \in AgentSet :
       a.tool = "get_user_by_user_id" /\ a.result = "error" /\ a.fetches = <<>>
  /\ \E b \in AgentSet :
       b.tool = "get_campaign" /\ Len(b.fetches) = 1

(***************************************************************************)
(* Properties of IterableClient, checked under ClientSpec.                 *)
(***************************************************************************)

Resolved == pc = "resolved"
Returned == pc \in {"returned", "resolved"}
Rejected == pc = "rejected"
\* request() has rejected; the method may not have continued yet.
RequestRejected == pc \in {"threw", "rejected"} /\ requestError # NoError

\* C11: for an ok response request() returns exactly one variant, chosen in
\* this order: the empty object if and only if the body text is empty;
\* otherwise the JSON-parsed value if the text parses as JSON; otherwise the
\* raw text, character for character.
C11_NormalizationOrder ==
  Returned =>
    /\ returned.variant \in {"empty", "json", "text"}
    /\ returned.variant = "empty" <=> text.value = <<>>
    /\ returned.variant = "empty" => returned.value = EmptyObject
    /\ returned.variant = "json" <=> (text.value # <<>> /\ JSONParse(text.value).ok)
    /\ returned.variant = "json" => returned.value = JSONParse(text.value).value
    /\ returned.variant = "text" =>
         /\ returned.value.type = "string"
         /\ returned.value.str = text.value

\* A metrics body of two lines that is not JSON has been returned as text,
\* its newline and its leading blank included.
C11_Witness ==
  /\ Resolved
  /\ method = "getCampaignMetrics"
  /\ text.value = <<" ", "a", "\n", "1">>
  /\ returned.variant = "text"
  /\ result.str = <<" ", "a", "\n", "1">>

\* C12: for a response that is not ok, request() rejects with an
\* IterableApiError whose status and statusText are the response's and whose
\* body is the response text, or the empty string when reading the body
\* failed; the error is not re-wrapped as the status-0 "Network Error".
C12_StatusErrorUnchanged ==
  /\ (RequestRejected /\ response.settled = "resolved" /\ ~IsOk(response)) =>
       /\ requestError.name = "IterableApiError"
       /\ requestError.status = response.status
       /\ requestError.statusText = response.statusText
       /\ requestError.body = (IF text.state = "read" THEN text.value ELSE <<>>)
       /\ requestError.status # 0
       /\ requestError.statusText # "Network Error"
  /\ (Rejected /\ response.settled = "resolved" /\ ~IsOk(response)) =>
       error = requestError

\* A 404 whose body could not be read has been rejected with an empty body.
C12_Witness ==
  /\ Rejected
  /\ response.status = 404
  /\ text.state = "failed"
  /\ requestError = IterableApiError(404, "Not Found", <<>>)
  /\ error = IterableApiError(404, "Not Found", <<>>)

\* C13: an exception thrown by the network call is re-raised as
\* IterableApiError with status 0, statusText "Network Error" and the
\* exception's message as body, and every rejection of every method is an
\* IterableApiError.
C13_EveryRejectionIsApiError ==
  Rejected =>
    /\ error.name = "IterableApiError"
    /\ response.settled = "rejected" =>
         error = IterableApiError(0, "Network Error", response.thrown.message)

\* C14: a call issues at most one fetch; once that fetch has failed, by a
\* status that is not ok or by an exception, the call is on its way to
\* rejecting and never waits for a fetch again, and when it has rejected it
\* holds an IterableApiError and still has issued exactly one fetch.
C14_OneFetchNoRetry ==
  /\ Len(fetches) <= 1
  /\ (Rejected /\ response.settled # "pending") =>
       /\ Len(fetches) = 1
       /\ error.name = "IterableApiError"
  /\ (response.settled = "rejected"
        \/ (response.settled = "resolved" /\ ~IsOk(response)))
       => /\ pc \in {"readingErrorBody", "errorBodyRead", "threw", "rejected"}
          /\ Len(fetches) = 1
  /\ response.settled = "rejected" => RequestRejected

\* A call whose fetch threw has rejected after exactly one fetch.
C14_Witness ==
  /\ Rejected
  /\ response.settled = "rejected"
  /\ Len(fetches) = 1
  /\ error.status = 0

AllDigits(t) == t # <<>> /\ \A i \in 1..Len(t) : t[i] \in Digits

\* The natural number a string of decimal digits denotes: its digits
\* from the first that is not zero on (the last one for a string of zeros).
DecimalValue(t) ==
  LET significant == {i \in 1..Len(t) : t[i] # "0"}
      first == IF significant = {} THEN Len(t)
               ELSE CHOOSE i \in significant : \A j \in significant : i <= j
  IN  [i \in 1..(Len(t) - first + 1) |-> DigitValue(t[first + i - 1])]

\* C17: for every ok response whose body is a non-empty string of decimal
\* digits denoting n, getListSize resolves with {size: n}, whether request()
\* returned the JSON-parsed number or the raw text.
C17_SizeFromDigits ==
  (Resolved /\ method = "getListSize" /\ AllDigits(text.value)) =>
    /\ returned.variant \in {"json", "text"}
    /\ result.type = "{size}"
    /\ result.num = DecimalValue(text.value)

RECURSIVE LinesOf(_, _)
LinesOf(s, line) ==
  IF s = <<>> THEN <<line>>
  ELSE IF Head(s) = "\n" THEN <<line>> \o LinesOf(Tail(s), <<>>)
  ELSE LinesOf(Tail(s), Append(line, Head(s)))

NotEmpty(line) == line # <<>>

\* The lines of a body, each trimmed, the blank ones dropped, in order.
NonBlankLines(body) ==
  LET lines == LinesOf(body, <<>>)
      trimmed == [i \in 1..Len(lines) |-> Trim(lines[i])]
  IN SelectSeq(trimmed, NotEmpty)

\* C18: when request() returned a plain-text body, getListUsers resolves
\* with {users} holding one entry per non-blank line of the body, trimmed,
\* in the order of the lines, so there are as many users as non-blank lines.
C18_UsersFromLines ==
  (Resolved /\ method = "getListUsers" /\ returned.variant = "text") =>
    /\ result.type = "{users}"
    /\ result.users = NonBlankLines(text.value)
    /\ Len(result.users) =
         Cardinality({i \in 1..Len(LinesOf(text.value, <<>>)) :
                        Trim(LinesOf(text.value, <<>>)[i]) # <<>>})

\* Two addresses separated by a blank line have given exactly two users.
C18_Witness ==
  /\ Resolved
  /\ method = "getListUsers"
  /\ text.value = <<"a", "\n", "\n", "1">>
  /\ result.users = << <<"a">>, <<"1">> >>

(***************************************************************************)
(* Properties of getSentMessages, checked under QuerySpec.                 *)
(***************************************************************************)

\* The tokens after "?" (none when the path has no query).
QueryTokens == IF Len(path) >= 2 THEN SubSeq(path, 3, Len(path)) ELSE <<>>

\* The values of the pairs of the query whose key is campaignIds, in order:
\* a pair runs from its key to the next "&".
RECURSIVE ValueUpToAmp(_)
ValueUpToAmp(toks) ==
  IF toks = <<>> \/ Head(toks) = "&" THEN <<>>
  ELSE <<Head(toks)>> \o ValueUpToAmp(Tail(toks))

RECURSIVE CampaignIdValuesIn(_, _)
CampaignIdValuesIn(toks, atPairStart) ==
  IF toks = <<>> THEN <<>>
  ELSE IF atPairStart /\ Head(toks) = "campaignIds" /\ Len(toks) >= 2 /\ toks[2] = "="
  THEN <<ValueUpToAmp(Tail(Tail(toks)))>> \o CampaignIdValuesIn(Tail(toks), FALSE)
  ELSE CampaignIdValuesIn(Tail(toks), Head(toks) = "&")

\* C16: the query of getSentMessages holds one campaignIds pair per element
\* of the array, in element order, each with that element's decimal digits
\* as value, and none when the array is absent or empty; no value is a
\* comma-joined or bracketed list.
C16_RepeatedPairs ==
  path # <<>> =>
    LET values == CampaignIdValuesIn(QueryTokens, TRUE)
        ids == params.campaignIds.value
    IN /\ Len(values) = (IF params.campaignIds.present THEN Len(ids) ELSE 0)
       /\ \A i \in 1..Len(values) :
            /\ values[i] = NumberToString(NatOf(ids[i]))
            /\ \A k \in 1..Len(values[i]) : values[i][k] \notin {"%2C", "%5B", "%5D", ","}

\* campaignIds [1, 2, 30] after an email has given three pairs after the
\* email pair.
C16_Witness ==
  /\ params.campaignIds = Some(<<1, 2, 30>>)
  /\ params.email.present
  /\ ~params.limit.present
  /\ path = <<SENT_MESSAGES_PATH, "?", "email", "=", "a", "%40", "b", "&",
              "campaignIds", "=", "1", "&", "campaignIds", "=", "2", "&",
              "campaignIds", "=", "3", "0">>

(***************************************************************************)
(* Properties of parseConfig, checked under ConfigSpec.                    *)
(***************************************************************************)

\* Values the claim names as giving false.
NotTrueValues == {Undefined, "TRUE", "1", ""}

\* C19: each flag of the parsed configuration is true exactly when its own
\* environment variable is the string "true"; a missing variable, "TRUE",
\* "1" and the empty string give false; a flag does not depend on the other
\* two variables.
C19_ExactTrueOnly ==
  "parseConfig" \in called =>
    /\ config.allowUserPii <=> env.ITERABLE_USER_PII \in {"true"}
    /\ config.allowWrites <=> env.ITERABLE_ENABLE_WRITES \in {"true"}
    /\ config.allowSends <=> env.ITERABLE_ENABLE_SENDS \in {"true"}
    /\ env.ITERABLE_USER_PII \in NotTrueValues => ~config.allowUserPii
    /\ env.ITERABLE_ENABLE_WRITES \in NotTrueValues => ~config.allowWrites
    /\ env.ITERABLE_ENABLE_SENDS \in NotTrueValues => ~config.allowSends

\* "TRUE", a missing variable and "true" have been parsed together: only
\* the last gives true.
C19_Witness ==
  /\ "parseConfig" \in called
  /\ env.ITERABLE_USER_PII = "TRUE"
  /\ env.ITERABLE_ENABLE_WRITES = Undefined
  /\ env.ITERABLE_ENABLE_SENDS = "true"
  /\ config = [allowUserPii |-> FALSE, allowWrites |-> FALSE, allowSends |-> TRUE]

(***************************************************************************)
(* Properties of routing and of registration, checked under RouteSpec     *)
(* and Spec.                                                              *)
(***************************************************************************)

\* C20: a request to a path other than /mcp, /sse and /sse/message is
\* answered by the worker with status 200 and the informational document,
\* with or without a credential; it is not answered 401, nothing is handed
\* to a transport and no session is started by it.
C20_InfoRoute ==
  [][ (last' # last /\ last'.pathname \notin {"/mcp", "/sse", "/sse/message"}) =>
        /\ last'.handledBy = "worker"
        /\ last'.status = 200
        /\ last'.body = SERVER_INFO
        /\ last'.passedKey = Null
        /\ agents' = agents
    ]_vars

\* /mcp/ with a key in the query has been answered with the document.
C20_Witness ==
  /\ last.pathname = "/mcp/"
  /\ last.query = "key-q"
  /\ last.status = 200
  /\ last.body = SERVER_INFO
  /\ last.handledBy = "worker"

(***************************************************************************)
(* Further properties of the worker, the permission evaluator and the      *)
(* client.                                                                 *)
(***************************************************************************)

KeyValues == {"key-q", "key-h", "key-e"}

\* C21: a response the worker builds itself is determined by the path and
\* by whether any credential is present: the 401 document on a protected
\* route without credential, the informational document otherwise; its body
\* is one of the two fixed documents and never a credential value.
C21_ResponseIgnoresKeyValue ==
  last.handledBy = "worker" =>
    /\ last.body = (IF ProtectedRoute /\ NoCredential
                    THEN API_KEY_REQUIRED ELSE SERVER_INFO)
    /\ last.status = (IF ProtectedRoute /\ NoCredential THEN 401 ELSE 200)
    /\ last.body \notin KeyValues
    /\ last.passedKey = Null

\* The root path has been answered with the document for a request that
\* carried a header key on a deployment with a default key.
C21_Witness ==
  /\ last.handledBy = "worker"
  /\ last.pathname = "/"
  /\ last.header = "key-h"
  /\ last.query = Null
  /\ env.ITERABLE_API_KEY = "key-e"
  /\ last.body = SERVER_INFO

AllFlagsTrue == config.allowUserPii /\ config.allowWrites /\ config.allowSends

\* C22: with allowUserPii, allowWrites and allowSends all true,
\* isToolAllowed returns true and getBlockedReason returns null for every
\* tool name, the names of no capability set included.
C22_FullAccessAllowsAll ==
  AllFlagsTrue =>
    /\ "isToolAllowed" \in called => allowed
    /\ "getBlockedReason" \in called => reason = Null

\* A send tool has been evaluated by both functions under full access.
C22_Witness ==
  /\ AllFlagsTrue
  /\ called = {"isToolAllowed", "getBlockedReason"}
  /\ toolName = "send_email"
  /\ allowed
  /\ reason = Null

\* C23: under a configuration with allowUserPii true, the set of tools
\* registered by init has at least 30 elements.
C23_AtLeast30Tools ==
  \A a \in AgentSet :
    (a.pc # "created" /\ parseConfig(a.env).allowUserPii) =>
      Cardinality(a.registered) >= 30

\* The tokens of a URL after its "?" (none when it has no "?").
RECURSIVE AfterQuestionMark(_)
AfterQuestionMark(u) ==
  IF u = <<>> THEN <<>>
  ELSE IF Head(u) = "?" THEN Tail(u)
  ELSE AfterQuestionMark(Tail(u))

\* The pairs of a query: each runs to the next "&" and is key, "=", value.
RECURSIVE PairsIn(_)
PairsIn(toks) ==
  IF toks = <<>> THEN <<>>
  ELSE LET pair == ValueUpToAmp(toks)
           rest == SubSeq(toks, Len(pair) + 2, Len(toks))
       IN <<[key |-> pair[1],
             hasEquals |-> Len(pair) >= 2 /\ pair[2] = "=",
             value |-> SubSeq(pair, 3, Len(pair))]>> \o PairsIn(rest)

DefinedEntries == SelectSeq(options.entries, IsDefined)

\* C24: in the URL request() fetches, an entry whose value is undefined
\* leaves no key and no empty value; the defined entries appear in order as
\* key=value with the form-encoded String(value); when no entry is defined
\* or no params are given the URL is base URL + path and holds no "?".
C24_UndefinedOmitted ==
  url # <<>> =>
    LET pairs == PairsIn(AfterQuestionMark(url)) IN
      /\ Len(pairs) = Len(DefinedEntries)
      /\ \A i \in 1..Len(pairs) :
           /\ pairs[i].hasEquals
           /\ pairs[i].key = DefinedEntries[i].key
           /\ pairs[i].value = FormEncode(StringOf(DefinedEntries[i].value))
      /\ \A i \in 1..Len(options.entries) :
           ~options.entries[i].present =>
             \A k \in 1..Len(url) : url[k] # options.entries[i].key
      /\ DefinedEntries = <<>> =>
           /\ url = <<options.baseUrl>> \o options.path
           /\ \A k \in 1..Len(url) : url[k] # "?"

\* getTemplates with every parameter undefined has fetched the bare URL.
C24_Witness ==
  /\ options.given
  /\ options.path = <<"/api/templates">>
  /\ DefinedEntries = <<>>
  /\ url = <<DEFAULT_BASE_URL, "/api/templates">>

NonEmpty(v) == v \notin {Null, Undefined, ""}

\* The sources of the credential of the request handled last, in order.
CredentialSources == <<last.query, last.header, env.ITERABLE_API_KEY>>

FirstNonEmptyIndex ==
  IF \E i \in 1..3 : NonEmpty(CredentialSources[i])
  THEN CHOOSE i \in 1..3 :
         /\ NonEmpty(CredentialSources[i])
         /\ \A j \in 1..(i - 1) : ~NonEmpty(CredentialSources[j])
  ELSE 0

\* C25: the resolved credential is the first of query parameter, header and
\* default whose value is a non-empty string, so an empty query parameter
\* does not shadow the header and an empty header does not shadow the
\* default; with such a credential a request is never answered 401; when
\* all three are empty or missing, a request to a protected route is
\* answered 401.
C25_FirstNonEmptyWins ==
  Handled =>
    /\ FirstNonEmptyIndex # 0 =>
         /\ last.apiKey = CredentialSources[FirstNonEmptyIndex]
         /\ last.status # 401
         /\ Dispatched => last.passedKey = CredentialSources[FirstNonEmptyIndex]
         /\ ProtectedRoute => Dispatched
    /\ (FirstNonEmptyIndex = 0 /\ ProtectedRoute) =>
         /\ last.status = 401
         /\ last.handledBy = "worker"

\* An empty query parameter and an empty header have let the default
\* through to the transport.
C25_Witness ==
  /\ Dispatched
  /\ last.query = ""
  /\ last.header = ""
  /\ env.ITERABLE_API_KEY = "key-e"
  /\ last.passedKey = "key-e"

OtherSends == [config EXCEPT !.allowSends = ~config.allowSends]

\* C26: READ_ONLY_TOOLS and SEND_TOOLS are disjoint; for every tool name and
\* every allowUserPii, when allowWrites is false isToolAllowed and
\* getBlockedReason give the same result for both values of allowSends; the
\* send reason is returned only when allowWrites is true.
C26_SendGateNeedsWrites ==
  /\ READ_ONLY_TOOLS \cap SEND_TOOLS = {}
  /\ ("isToolAllowed" \in called /\ ~config.allowWrites) =>
       allowed = isToolAllowed(toolName, OtherSends)
  /\ ("getBlockedReason" \in called /\ ~config.allowWrites) =>
       reason = getBlockedReason(toolName, OtherSends)
  /\ ("getBlockedReason" \in called /\ reason = SEND_REASON) => config.allowWrites

\* A send tool has been refused for the send gate with writes on, PII on
\* and sends off.
C26_Witness ==
  /\ called = {"isToolAllowed", "getBlockedReason"}
  /\ toolName = "send_campaign"
  /\ config = [allowUserPii |-> TRUE, allowWrites |-> TRUE, allowSends |-> FALSE]
  /\ ~allowed
  /\ reason = SEND_REASON

\* The six tools the README marks as requiring the PII permission.
PiiWithheld ==
  {"get_user_by_email", "get_user_by_user_id", "get_sent_messages",
   "get_user_events_by_email", "get_user_events_by_user_id", "get_list_users"}

\* C27: each of the 29 names init can register is in READ_ONLY_TOOLS and
\* not in SEND_TOOLS; whatever the writes and sends variables are, a session
\* has all 29 registered when ITERABLE_USER_PII is "true" and otherwise the
\* 23 that remain without the six PII tools.
C27_RegisteredByPiiAlone ==
  /\ Cardinality(InitTools) = 29
  /\ InitTools \subseteq READ_ONLY_TOOLS
  /\ InitTools \cap SEND_TOOLS = {}
  /\ PiiWithheld \subseteq InitTools
  /\ \A a \in AgentSet :
       a.pc # "created" =>
         /\ a.registered =
              (IF a.env.ITERABLE_USER_PII = "true" THEN InitTools
               ELSE InitTools \ PiiWithheld)
         /\ Cardinality(a.registered) =
              (IF a.env.ITERABLE_USER_PII = "true" THEN 29 ELSE 23)

\* With writes and sends on and PII off, a session has registered the 23
\* tools.
C27_Witness ==
  /\ env.ITERABLE_USER_PII = "false"
  /\ env.ITERABLE_ENABLE_WRITES = "true"
  /\ env.ITERABLE_ENABLE_SENDS = "true"
  /\ \E a \in AgentSet :
       /\ a.pc = "ready"
       /\ Cardinality(a.registered) = 23
       /\ "get_list_users" \notin a.registered

\* C28: when request() returned the empty object for an empty body, or a
\* JSON-parsed value, getListUsers resolves with that value unchanged; an
\* empty body gives {} without a users field.
C28_UsersOnlyFromString ==
  (Resolved /\ method = "getListUsers" /\ returned.variant \in {"empty", "json"}) =>
    /\ result = returned.value
    /\ result.type # "{users}"
    /\ text.value = <<>> => result = EmptyObject

\* C28, amended: getListUsers lifts the value of request() exactly when it
\* is a string; for an empty body, or a body that parses as JSON to a value
\* that is not a string, it resolves with that value unchanged, and an empty
\* body gives {} without a users field; a body that parses as JSON to a
\* string is lifted like plain text.
C28_UsersOnlyFromStringValue ==
  (Resolved /\ method = "getListUsers") =>
    /\ result.type = "{users}" <=> returned.value.type = "string"
    /\ ( /\ returned.variant \in {"empty", "json"}
         /\ returned.value.type # "string" ) =>
           /\ result = returned.value
           /\ result.type # "{users}"
    /\ text.value = <<>> => result = EmptyObject
    /\ (returned.variant = "json" /\ returned.value.type = "string") =>
         result = UsersRecord(NonBlankLines(returned.value.str))

\* An empty body has been answered with the empty object.
C28_Witness ==
  /\ Resolved
  /\ method = "getListUsers"
  /\ text = [state |-> "read", value |-> <<>>, thrown |-> NoError]
  /\ result = EmptyObject

\* C29: when the body of an ok response cannot be read, the call rejects
\* with IterableApiError of status 0, statusText "Network Error" and the
\* message of the read error, although a response was received; status 0 is
\* reported exactly for a rejected fetch and for such a failed read.
C29_ReadFailureIsNetworkError ==
  /\ (RequestRejected /\ response.settled = "resolved" /\ IsOk(response)) =>
       /\ text.state = "failed"
       /\ requestError = IterableApiError(0, "Network Error", text.thrown.message)
  /\ (Rejected /\ response.settled = "resolved" /\ IsOk(response)) =>
       /\ text.state = "failed"
       /\ error = IterableApiError(0, "Network Error", text.thrown.message)
  /\ (Rejected /\ error.name = "IterableApiError") =>
       (error.status = 0 <=>
          \/ response.settled = "rejected"
          \/ (response.settled = "resolved" /\ IsOk(response)))

\* A 200 response whose body could not be read has been rejected with
\* status 0.
C29_Witness ==
  /\ Rejected
  /\ response.status = 200
  /\ text.state = "failed"
  /\ error.status = 0
  /\ error.statusText = "Network Error"

Settled == pc \in {"resolved", "rejected"}

\* C30: when the upstream settles, every call eventually resolves or
\* rejects; a resolved call holds one normalized result and no error, a
\* rejected call holds one IterableApiError and no result; a call leaves
\* the wait for fetch only by fetch settling, and the wait for the body only
\* by the read settling: there is no timeout.
C30_TerminatesOnceSettled ==
  /\ <>Settled
  /\ [](Resolved => (returned.variant # "none" /\ result # NoValue /\ error = NoError))
  /\ [](Rejected => (result = NoValue /\ returned = NoReturn
                       /\ error.name = "IterableApiError"))
  /\ [][ /\ (pc = "fetching" /\ pc' # "fetching") => response'.settled # "pending"
         /\ (pc \in {"readingBody", "readingErrorBody"} /\ pc' # pc) => text'.state # "unread"
       ]_vars

====
